---- MODULE Spec2Model ----
(***************************************************************************)
(* Model of azctl's configuration-resolution layer (package config) and of *)
(* the parts of the acr / aci / webapp commands that read and write it.    *)
(*                                                                         *)
(* Strings are sequences of one-character strings, so that                 *)
(* strings.ToUpper and strings.Split are computed, not assumed.  A Go      *)
(* map[string]string is a function whose domain is a finite set of such    *)
(* strings.                                                                *)
(***************************************************************************)
EXTENDS Integers, Sequences, FiniteSets, TLC

(***************************************************************************)
(* Bounds of the model.                                                    *)
(***************************************************************************)
MaxInits == 2      \* calls of config.Init in one process
MaxSets == 2       \* calls of Config.Set made by the caller
MaxGetAll == 1     \* maps handed out by Config.GetAll
MaxMutations == 1  \* writes the caller makes to a map it got from GetAll
MaxProviders == 3  \* providers a logging Manager holds

(***************************************************************************)
(* Strings.                                                                *)
(***************************************************************************)
LowerLetters == <<"a","b","c","d","e","f","g","h","i","j","k","l","m",
                  "n","o","p","q","r","s","t","u","v","w","x","y","z">>
UpperLetters == <<"A","B","C","D","E","F","G","H","I","J","K","L","M",
                  "N","O","P","Q","R","S","T","U","V","W","X","Y","Z">>

EmptyStr == <<>>

UpperOf == [c \in {LowerLetters[i] : i \in 1..Len(LowerLetters)} |->
               UpperLetters[CHOOSE i \in 1..Len(LowerLetters) : LowerLetters[i] = c]]
LowerOf == [c \in {UpperLetters[i] : i \in 1..Len(UpperLetters)} |->
               LowerLetters[CHOOSE i \in 1..Len(UpperLetters) : UpperLetters[i] = c]]

UpperChar(c) == IF c \in DOMAIN UpperOf THEN UpperOf[c] ELSE c
LowerChar(c) == IF c \in DOMAIN LowerOf THEN LowerOf[c] ELSE c

\* strings.ToUpper
ToUpper(s) == [i \in 1..Len(s) |-> UpperChar(s[i])]

RECURSIVE Split(_, _)
\* strings.Split(s, sep) for a one-character separator
Split(s, sep) ==
    LET idx == {i \in 1..Len(s) : s[i] = sep}
    IN  IF idx = {} THEN <<s>>
        ELSE LET i == CHOOSE j \in idx : \A h \in idx : j <= h
             IN  <<SubSeq(s, 1, i - 1)>> \o Split(SubSeq(s, i + 1, Len(s)), sep)

\* Two spellings that differ at most in the case of their letters.
SameLetter(c, d) ==
    \/ c = d
    \/ \E i \in 1..Len(LowerLetters) :
          {c, d} = {LowerLetters[i], UpperLetters[i]}
DifferOnlyInCase(a, b) ==
    /\ Len(a) = Len(b)
    /\ \A i \in 1..Len(a) : SameLetter(a[i], b[i])

(***************************************************************************)
(* Key names and values used by the code and by the inputs.                *)
(***************************************************************************)
K_foo == <<"f", "o", "o">>
K_Foo == <<"F", "o", "o">>
K_FOO == <<"F", "O", "O">>
K_bar == <<"b", "a", "r">>
K_BAR == <<"B", "A", "R">>
K_REGISTRY == <<"R", "E", "G", "I", "S", "T", "R", "Y">>
K_ACR_REGISTRY == <<"A", "C", "R", "_", "R", "E", "G", "I", "S", "T", "R", "Y">>
K_IMAGE_REGISTRY == <<"I", "M", "A", "G", "E", "_", "R", "E", "G", "I", "S", "T", "R", "Y">>
K_RESOURCE_GROUP == <<"R", "E", "S", "O", "U", "R", "C", "E", "_", "G", "R", "O", "U", "P">>
K_ACR_RESOURCE_GROUP == <<"A", "C", "R", "_", "R", "E", "S", "O", "U", "R", "C", "E", "_", "G", "R", "O", "U", "P">>
K_CI == <<"C", "I">>
K_APP_CONFIG_SKIP == <<"A", "P", "P", "_", "C", "O", "N", "F", "I", "G", "_", "S", "K", "I", "P">>
K_APP_CONFIG_NAME == <<"A", "P", "P", "_", "C", "O", "N", "F", "I", "G", "_", "N", "A", "M", "E">>
K_APP_CONFIG == <<"A", "P", "P", "_", "C", "O", "N", "F", "I", "G">>
K_APP_CONFIG_LABEL == <<"A", "P", "P", "_", "C", "O", "N", "F", "I", "G", "_", "L", "A", "B", "E", "L">>
K_IMAGE_NAME == <<"I", "M", "A", "G", "E", "_", "N", "A", "M", "E">>
K_IMAGE_TAG == <<"I", "M", "A", "G", "E", "_", "T", "A", "G">>
K_GITHUB_ACTIONS == <<"G", "I", "T", "H", "U", "B", "_", "A", "C", "T", "I", "O", "N", "S">>
K_GITHUB_REPOSITORY == <<"G", "I", "T", "H", "U", "B", "_", "R", "E", "P", "O", "S", "I", "T", "O", "R", "Y">>

envTrue == <<"t", "r", "u", "e">>
GlobalKey == <<"g", "l", "o", "b", "a", "l", "-", "c", "o", "n", "f", "i", "g", "u", "r", "a", "t", "i", "o", "n", "s">>
DotEnvPath == <<".", "e", "n", "v">>

V_e1 == <<"e", "1">>      \* values the process environment gives
V_e2 == <<"e", "2">>
V_f1 == <<"f", "1">>      \* values the dotenv file gives
V_f2 == <<"f", "2">>
V_f3 == <<"f", "3">>
V_r1 == <<"r", "1">>      \* values the remote entries give
V_r2 == <<"r", "2">>
V_r3 == <<"r", "3">>
V_v == <<"v">>            \* values the caller passes to Set
V_w == <<"w">>
V_cfg == <<"c", "f", "g">>
V_app1 == <<"a", "p", "p", "1">>
V_dev == <<"d", "e", "v">>
V_rg1 == <<"r", "g", "1">>
V_repo == <<"o", "/", "a", "p", "p", "1">>

\* names and literals of package cli
K_ENV_NAME == <<"E", "N", "V", "_", "N", "A", "M", "E">>
K_CONTAINER_GROUP_NAME == <<"C", "O", "N", "T", "A", "I", "N", "E", "R", "_", "G", "R", "O", "U", "P", "_", "N", "A", "M", "E">>
K_DNS_NAME_LABEL == <<"D", "N", "S", "_", "N", "A", "M", "E", "_", "L", "A", "B", "E", "L">>
K_LOCATION == <<"L", "O", "C", "A", "T", "I", "O", "N">>
K_OS_TYPE == <<"O", "S", "_", "T", "Y", "P", "E">>
K_ACI_PORT == <<"A", "C", "I", "_", "P", "O", "R", "T">>
K_ACI_CPU == <<"A", "C", "I", "_", "C", "P", "U">>
K_ACI_MEMORY == <<"A", "C", "I", "_", "M", "E", "M", "O", "R", "Y">>
K_ACR_USERNAME == <<"A", "C", "R", "_", "U", "S", "E", "R", "N", "A", "M", "E">>
K_ACR_PASSWORD == <<"A", "C", "R", "_", "P", "A", "S", "S", "W", "O", "R", "D">>
K_LOG_SHARE_NAME == <<"L", "O", "G", "_", "S", "H", "A", "R", "E", "_", "N", "A", "M", "E">>
K_LOG_STORAGE_ACCOUNT == <<"L", "O", "G", "_", "S", "T", "O", "R", "A", "G", "E", "_", "A", "C", "C", "O", "U", "N", "T">>
K_LOG_STORAGE_KEY == <<"L", "O", "G", "_", "S", "T", "O", "R", "A", "G", "E", "_", "K", "E", "Y">>
K_FLUENTBIT_CONFIG_SHARE == <<"F", "L", "U", "E", "N", "T", "B", "I", "T", "_", "C", "O", "N", "F", "I", "G", "_", "S", "H", "A", "R", "E">>
K_WEBAPP_NAME == <<"W", "E", "B", "A", "P", "P", "_", "N", "A", "M", "E">>
K_APP_SERVICE_PLAN == <<"A", "P", "P", "_", "S", "E", "R", "V", "I", "C", "E", "_", "P", "L", "A", "N">>
K_GITHUB_REF == <<"G", "I", "T", "H", "U", "B", "_", "R", "E", "F">>
K_GITHUB_SHA == <<"G", "I", "T", "H", "U", "B", "_", "S", "H", "A">>
K_AZURE_PIPELINE == <<"A", "Z", "U", "R", "E", "_", "P", "I", "P", "E", "L", "I", "N", "E">>
K_GITLAB_CI == <<"G", "I", "T", "L", "A", "B", "_", "C", "I">>
K_JENKINS_URL == <<"J", "E", "N", "K", "I", "N", "S", "_", "U", "R", "L">>
K_TRAVIS == <<"T", "R", "A", "V", "I", "S">>
K_CIRCLECI == <<"C", "I", "R", "C", "L", "E", "C", "I">>
K_SYSTEM_ENVIRONMENT == <<"S", "Y", "S", "T", "E", "M", "_", "E", "N", "V", "I", "R", "O", "N", "M", "E", "N", "T">>
K_CI_ENVIRONMENT_NAME == <<"C", "I", "_", "E", "N", "V", "I", "R", "O", "N", "M", "E", "N", "T", "_", "N", "A", "M", "E">>
K_ENVIRONMENT == <<"E", "N", "V", "I", "R", "O", "N", "M", "E", "N", "T">>
K_BUILD_REPOSITORY_NAME == <<"B", "U", "I", "L", "D", "_", "R", "E", "P", "O", "S", "I", "T", "O", "R", "Y", "_", "N", "A", "M", "E">>
K_CI_PROJECT_NAME == <<"C", "I", "_", "P", "R", "O", "J", "E", "C", "T", "_", "N", "A", "M", "E">>
K_BUILD_BUILDID == <<"B", "U", "I", "L", "D", "_", "B", "U", "I", "L", "D", "I", "D">>
K_BUILD_SOURCEVERSION == <<"B", "U", "I", "L", "D", "_", "S", "O", "U", "R", "C", "E", "V", "E", "R", "S", "I", "O", "N">>
K_CI_COMMIT_SHA == <<"C", "I", "_", "C", "O", "M", "M", "I", "T", "_", "S", "H", "A">>

envProd == <<"p", "r", "o", "d">>
envProduction == <<"p", "r", "o", "d", "u", "c", "t", "i", "o", "n">>
envDev == <<"d", "e", "v">>
envDevelopment == <<"d", "e", "v", "e", "l", "o", "p", "m", "e", "n", "t">>
envStaging == <<"s", "t", "a", "g", "i", "n", "g">>
BranchMain == <<"m", "a", "i", "n">>
BranchMaster == <<"m", "a", "s", "t", "e", "r">>
RefsHeads == <<"r", "e", "f", "s", "/", "h", "e", "a", "d", "s", "/">>
AppConfigPrefix == <<"a", "p", "p", "-", "c", "o", "n", "f", "i", "g", "-">>
DefaultWebApp == <<"w", "e", "b", "a", "p", "p">>
D_eastus == <<"e", "a", "s", "t", "u", "s">>
D_Linux == <<"L", "i", "n", "u", "x">>
D_8080 == <<"8", "0", "8", "0">>
D_1 == <<"1">>
D_2 == <<"2">>
D_applogs == <<"a", "p", "p", "l", "o", "g", "s">>
D_swarmlogs == <<"s", "w", "a", "r", "m", "l", "o", "g", "s">>
D_placeholder_key == <<"p", "l", "a", "c", "e", "h", "o", "l", "d", "e", "r", "-", "k", "e", "y">>
D_fluentbit_config == <<"f", "l", "u", "e", "n", "t", "b", "i", "t", "-", "c", "o", "n", "f", "i", "g">>
V_rg2 == <<"r", "g", "2">>
V_rgF == <<"r", "g", "F">>
V_regF == <<"r", "e", "g", "F">>
V_tag1 == <<"t", "1">>
V_tagF == <<"t", "F">>
V_imgF == <<"i", "m", "g", "F">>
V_user == <<"u", "1">>
V_pass == <<"p", "1">>
V_cg1 == <<"c", "g", "1">>
V_dns1 == <<"d", "n", "s", "1">>
V_sha == <<"a", "b", "c">>
V_refDev == <<"r", "e", "f", "s", "/", "h", "e", "a", "d", "s", "/", "d", "e", "v">>
V_acr1 == <<"a", "c", "r", "1">>
V_plan1 == <<"p", "l", "a", "n", "1">>

variableMappings ==
    <<<<"R", "E", "S", "O", "U", "R", "C", "E", "_", "G", "R", "O", "U", "P">>,
      <<"A", "P", "P", "_", "C", "O", "N", "F", "I", "G">>,
      <<"A", "P", "P", "_", "C", "O", "N", "F", "I", "G", "_", "R", "E", "S", "O", "U", "R", "C", "E", "_", "G", "R", "O", "U", "P">>,
      <<"W", "E", "B", "A", "P", "P", "_", "N", "A", "M", "E">>,
      <<"A", "P", "P", "_", "S", "E", "R", "V", "I", "C", "E", "_", "P", "L", "A", "N">>,
      <<"D", "N", "S", "_", "N", "A", "M", "E", "_", "L", "A", "B", "E", "L">>,
      <<"A", "C", "I", "_", "P", "O", "R", "T">>,
      <<"A", "C", "I", "_", "C", "P", "U">>,
      <<"A", "C", "I", "_", "M", "E", "M", "O", "R", "Y">>,
      <<"O", "S", "_", "T", "Y", "P", "E">>,
      <<"L", "O", "C", "A", "T", "I", "O", "N">>,
      <<"R", "E", "G", "I", "S", "T", "R", "Y">>,
      <<"A", "C", "R", "_", "R", "E", "S", "O", "U", "R", "C", "E", "_", "G", "R", "O", "U", "P">>,
      <<"C", "O", "N", "T", "A", "I", "N", "E", "R", "_", "G", "R", "O", "U", "P", "_", "N", "A", "M", "E">>,
      <<"I", "M", "A", "G", "E", "_", "N", "A", "M", "E">>,
      <<"I", "M", "A", "G", "E", "_", "T", "A", "G">>,
      <<"A", "C", "R", "_", "U", "S", "E", "R", "N", "A", "M", "E">>,
      <<"A", "C", "R", "_", "P", "A", "S", "S", "W", "O", "R", "D">>,
      <<"L", "O", "G", "_", "S", "H", "A", "R", "E", "_", "N", "A", "M", "E">>,
      <<"L", "O", "G", "_", "S", "T", "O", "R", "A", "G", "E", "_", "A", "C", "C", "O", "U", "N", "T">>,
      <<"L", "O", "G", "_", "S", "T", "O", "R", "A", "G", "E", "_", "K", "E", "Y">>,
      <<"F", "L", "U", "E", "N", "T", "B", "I", "T", "_", "C", "O", "N", "F", "I", "G", "_", "S", "H", "A", "R", "E">>,
      <<"A", "P", "P", "_", "C", "O", "N", "F", "I", "G", "_", "S", "K", "I", "P">>,
      <<"A", "P", "P", "_", "C", "O", "N", "F", "I", "G", "_", "D", "E", "B", "U", "G">>>>
aciMappings ==
    <<<<"S", "U", "P", "A", "B", "A", "S", "E", "_", "K", "E", "Y">>,
      <<"S", "U", "P", "A", "B", "A", "S", "E", "_", "U", "R", "L">>,
      <<"A", "Z", "U", "R", "E", "_", "O", "P", "E", "N", "A", "I", "_", "A", "P", "I", "_", "K", "E", "Y">>,
      <<"O", "P", "E", "N", "A", "I", "_", "A", "Z", "U", "R", "E", "_", "E", "M", "B", "E", "D", "D", "I", "N", "G", "S", "_", "E", "N", "D", "P", "O", "I", "N", "T">>,
      <<"A", "Z", "U", "R", "E", "_", "O", "P", "E", "N", "A", "I", "_", "M", "O", "D", "E", "L">>,
      <<"F", "I", "R", "E", "B", "A", "S", "E", "_", "K", "E", "Y">>,
      <<"F", "I", "R", "E", "B", "A", "S", "E", "_", "U", "R", "L">>,
      <<"S", "A", "G", "E", "M", "A", "K", "E", "R", "_", "O", "P", "E", "N", "A", "I", "_", "M", "O", "D", "E", "L">>,
      <<"S", "A", "G", "E", "M", "A", "K", "E", "R", "_", "O", "P", "E", "N", "A", "I", "_", "A", "P", "I", "_", "K", "E", "Y">>,
      <<"O", "P", "E", "N", "A", "I", "_", "S", "A", "G", "E", "M", "A", "K", "E", "R", "_", "E", "M", "B", "E", "D", "D", "I", "N", "G", "S", "_", "E", "N", "D", "P", "O", "I", "N", "T">>>>
ACIPrefix == <<"A", "C", "I", "_">>
NextPublicPrefix == <<"N", "E", "X", "T", "_", "P", "U", "B", "L", "I", "C", "_">>
K_NEXT_PUBLIC_URL == <<"N", "E", "X", "T", "_", "P", "U", "B", "L", "I", "C", "_", "U", "R", "L">>
V_groups == <<"r", "g", "1", "\n", " ", "r", "g", "2", "\n">>

(***************************************************************************)
(* Go maps.                                                                *)
(***************************************************************************)
EmptyMap == <<>>
Range(m) == {m[k] : k \in DOMAIN m}
Put(m, k, v) == [x \in DOMAIN m \cup {k} |-> IF x = k THEN v ELSE m[x]]
Remove(m, k) == [x \in DOMAIN m \ {k} |-> m[x]]
MapOf(pairs) == [k \in {p[1] : p \in pairs} |-> (CHOOSE p \in pairs : p[1] = k)[2]]

\* The maps that `for k, v := range m { r[strings.ToUpper(k)] = v }` can
\* build: when two keys of m differ only in case, the iteration order of the
\* Go map decides which value stays.
UpperCollapse(m) ==
    LET ks == {ToUpper(k) : k \in DOMAIN m}
        cand(K) == {m[k] : k \in {x \in DOMAIN m : ToUpper(x) = K}}
        amb == {K \in ks : Cardinality(cand(K)) > 1}
        picks == {c \in [amb -> UNION {cand(K) : K \in amb}] : \A K \in amb : c[K] \in cand(K)}
    IN  {[K \in ks |-> IF K \in amb THEN c[K] ELSE CHOOSE v \in cand(K) : TRUE] : c \in picks}

Overlay(a, b) == [k \in DOMAIN a \cup DOMAIN b |-> IF k \in DOMAIN b THEN b[k] ELSE a[k]]

VARIABLES
    environ,       \* the process environment: name -> value
    envFile,       \* the dotenv file on disk: [exists, readable, contents]
    remote,        \* Azure App Configuration as `az appconfig kv show` answers: <<key, label>> -> answer
    heap,          \* the Go maps allocated so far (a sequence; the index is the map's identity)
    globalConfig,  \* config.globalConfig: 0 is nil, else the index of the Config's values map
    onceDone,      \* configOnce has run its function
    loadCount,     \* number of executions of Config.Load
    loadTrace,     \* what each provider returned during the Load, in the order Load asked them
    initResults,   \* the error returned by each Init call, in call order
    setLog,        \* the <<key, value>> arguments of the caller's Set calls, in call order
    returned,      \* indices of the maps GetAll has returned
    mutations,     \* number of writes the caller made to returned maps
    ret,           \* the last operation and what it returned
    mu,            \* Config.mu: [writer, readers], the goroutines holding the lock
    goroutines     \* the goroutines calling into the Config: id -> position and locals

vars == <<environ, envFile, remote, heap, globalConfig, onceDone, loadCount,
          loadTrace, initResults, setLog, returned, mutations, ret, mu, goroutines>>

(***************************************************************************)
(* The process environment and the file system.                            *)
(***************************************************************************)
\* A sync.RWMutex nobody holds.
Unlocked == [writer |-> "", readers |-> {}]

\* os.Getenv
Getenv(name) == IF name \in DOMAIN environ THEN environ[name] ELSE EmptyStr

\* os.Stat(path) returns no error
StatOk(path) == envFile.exists /\ path = envFile.path

(***************************************************************************)
(* Errors.  An error is its kind; NilErr is Go's nil error.                *)
(***************************************************************************)
NilErr == "nil"
ErrMalformedJSON == "malformed JSON in Azure App Configuration"
ErrReadEnvFile == "failed to read env file"

(***************************************************************************)
(* Remote Config Source: fetchAzureAppConfigWithImage.                     *)
(*                                                                         *)
(* One run of `az appconfig kv show` answers with                          *)
(*   err      : the command failed (entry not found, service unreachable)  *)
(*   recordOk : its output parses as the record {key, value}               *)
(*   valueOk  : the record's value parses as a JSON object                 *)
(*   fields   : the fields of that object, name -> [isString, str]         *)
(***************************************************************************)
NotFound == [err |-> TRUE, recordOk |-> FALSE, valueOk |-> FALSE, fields |-> EmptyMap]
BadRecord == [err |-> FALSE, recordOk |-> FALSE, valueOk |-> FALSE, fields |-> EmptyMap]
BadValue == [err |-> FALSE, recordOk |-> TRUE, valueOk |-> FALSE, fields |-> EmptyMap]
Found(obj) == [err |-> FALSE, recordOk |-> TRUE, valueOk |-> TRUE, fields |-> obj]
JString(s) == [isString |-> TRUE, str |-> s]
JNumber == [isString |-> FALSE, str |-> EmptyStr]

\* exec.CommandContext(ctx, "az", "appconfig", "kv", "show", "--name", name,
\* "--key", key [, "--label", label]).Output()
AzShow(name, key, label) ==
    IF <<name, key, label>> \in DOMAIN remote THEN remote[<<name, key, label>>] ELSE NotFound

\* Every field of a parsed object, a non-string one as the empty string.
FieldsOfAnyType(obj) == [k \in DOMAIN obj |-> obj[k].str]

\* The string-valued fields of a parsed object, as name -> string.
StringFields(obj) ==
    [k \in {f \in DOMAIN obj : obj[f].isString} |-> obj[k].str]

\* What the code does with the output of a fetch that succeeded (one of the
\* four identical blocks): the results are [m, nilMap, err, done], done
\* meaning that the function returns here.
ParseInto(m, ans) ==
    IF ~ans.recordOk
    THEN {[m |-> m, nilMap |-> FALSE, err |-> NilErr, done |-> FALSE]}
    ELSE IF ~ans.valueOk
    THEN {[m |-> EmptyMap, nilMap |-> TRUE, err |-> ErrMalformedJSON, done |-> TRUE]}
    ELSE {[m |-> Overlay(m, r), nilMap |-> FALSE, err |-> NilErr, done |-> FALSE] :
             r \in UpperCollapse(StringFields(ans.fields))}

\* A fetch of one entry that retries without the label whenever the first
\* fetch failed, whether or not a label was given.
FetchEntryRetryAlways(m, name, key, label) ==
    LET first == AzShow(name, key, label)
        second == AzShow(name, key, EmptyStr)
    IN  IF ~first.err
        THEN {[res |-> p, calls |-> <<<<name, key, label>>>>] : p \in ParseInto(m, first)}
        ELSE IF ~second.err
        THEN {[res |-> p, calls |-> <<<<name, key, label>>, <<name, key, EmptyStr>>>>] :
                 p \in ParseInto(m, second)}
        ELSE {[res |-> [m |-> m, nilMap |-> FALSE, err |-> NilErr, done |-> FALSE],
               calls |-> <<<<name, key, label>>, <<name, key, EmptyStr>>>>]}

\* The fetch of one entry: with the label, and without it when the labelled
\* fetch failed and a label was given.  calls lists the requests issued.
FetchEntry(m, name, key, label) ==
    LET first == AzShow(name, key, label)
        second == AzShow(name, key, EmptyStr)
    IN  IF ~first.err
        THEN {[res |-> p, calls |-> <<<<name, key, label>>>>] : p \in ParseInto(m, first)}
        ELSE IF label # EmptyStr
        THEN IF ~second.err
             THEN {[res |-> p, calls |-> <<<<name, key, label>>, <<name, key, EmptyStr>>>>] :
                      p \in ParseInto(m, second)}
             ELSE {[res |-> [m |-> m, nilMap |-> FALSE, err |-> NilErr, done |-> FALSE],
                    calls |-> <<<<name, key, label>>, <<name, key, EmptyStr>>>>]}
        ELSE {[res |-> [m |-> m, nilMap |-> FALSE, err |-> NilErr, done |-> FALSE],
               calls |-> <<<<name, key, label>>>>]}

\* A fetch in which the global entry is written over the entity entry.
fetchGlobalOverEntity(name, label, imageName) ==
    IF name = EmptyStr
    THEN {[values |-> EmptyMap, nilMap |-> FALSE, err |-> NilErr, calls |-> <<>>]}
    ELSE UNION {
        IF g.res.done
        THEN {[values |-> g.res.m, nilMap |-> g.res.nilMap, err |-> g.res.err, calls |-> g.calls]}
        ELSE IF imageName = EmptyStr
        THEN {[values |-> g.res.m, nilMap |-> FALSE, err |-> NilErr, calls |-> g.calls]}
        ELSE {[values |-> Overlay(s.res.m, g.res.m), nilMap |-> s.res.nilMap, err |-> s.res.err,
               calls |-> g.calls \o s.calls] :
                 s \in FetchEntry(g.res.m, name, imageName, label)}
        : g \in FetchEntry(EmptyMap, name, GlobalKey, label)}

\* fetchAzureAppConfigWithImage(ctx, name, label, imageName): the set of
\* [values, nilMap, err, calls] it can return.
fetchAzureAppConfigWithImage(name, label, imageName) ==
    IF name = EmptyStr
    THEN {[values |-> EmptyMap, nilMap |-> FALSE, err |-> NilErr, calls |-> <<>>]}
    ELSE UNION {
        IF g.res.done
        THEN {[values |-> g.res.m, nilMap |-> g.res.nilMap, err |-> g.res.err, calls |-> g.calls]}
        ELSE IF imageName = EmptyStr
        THEN {[values |-> g.res.m, nilMap |-> FALSE, err |-> NilErr, calls |-> g.calls]}
        ELSE {[values |-> s.res.m, nilMap |-> s.res.nilMap, err |-> s.res.err,
               calls |-> g.calls \o s.calls] :
                 s \in FetchEntry(g.res.m, name, imageName, label)}
        : g \in FetchEntry(EmptyMap, name, GlobalKey, label)}

(***************************************************************************)
(* The providers of Config.Load.  Each Load returns a set of possible      *)
(* [values, nilMap, err] (a set because of Go's map iteration order).      *)
(***************************************************************************)
ProvAzure == "AzureAppConfig"
ProvEnvFile == "EnvFile"
ProvEnvironment == "Environment"

\* Provider.Priority()
Priority(p) ==
    CASE p = ProvEnvironment -> 100
      [] p = ProvEnvFile -> 50
      [] p = ProvAzure -> 10

Ok(values) == [values |-> values, nilMap |-> FALSE, err |-> NilErr]
Failed(err) == [values |-> EmptyMap, nilMap |-> TRUE, err |-> err]

\* EnvironmentProvider.Load: os.Environ() is modelled already split at the
\* first "=".
EnvironmentProviderLoad == {Ok(r) : r \in UpperCollapse(environ)}

\* EnvFileProvider.Load
EnvFileProviderLoad(envfile) ==
    IF envfile = EmptyStr THEN {Ok(EmptyMap)}
    ELSE IF Getenv(K_CI) = envTrue THEN {Ok(EmptyMap)}
    ELSE IF ~StatOk(envfile) THEN {Ok(EmptyMap)}
    ELSE IF ~envFile.readable THEN {Failed(ErrReadEnvFile)}
    ELSE {Ok(r) : r \in UpperCollapse(envFile.contents)}

\* AzureAppConfigProvider.determineServiceName
determineServiceName ==
    LET parts == Split(Getenv(K_GITHUB_REPOSITORY), "/")
    IN  IF /\ Getenv(K_CI) = envTrue
           /\ Getenv(K_GITHUB_ACTIONS) = envTrue
           /\ Getenv(K_GITHUB_REPOSITORY) # EmptyStr
           /\ Len(parts) = 2
        THEN parts[2]
        ELSE Getenv(K_IMAGE_NAME)

\* A remote source that does not look at APP_CONFIG_SKIP.
AzureLoadIgnoringSkip(env) ==
    LET name == IF Getenv(K_APP_CONFIG_NAME) # EmptyStr
                THEN Getenv(K_APP_CONFIG_NAME) ELSE Getenv(K_APP_CONFIG)
        label == IF Getenv(K_APP_CONFIG_LABEL) # EmptyStr
                 THEN Getenv(K_APP_CONFIG_LABEL) ELSE env
    IN  IF name = EmptyStr THEN {Ok(EmptyMap)}
        ELSE {[values |-> f.values, nilMap |-> f.nilMap, err |-> f.err, calls |-> f.calls] :
                 f \in fetchAzureAppConfigWithImage(name, label, determineServiceName)}

\* AzureAppConfigProvider.Load
AzureAppConfigProviderLoad(env) ==
    LET name == IF Getenv(K_APP_CONFIG_NAME) # EmptyStr
                THEN Getenv(K_APP_CONFIG_NAME) ELSE Getenv(K_APP_CONFIG)
        label == IF Getenv(K_APP_CONFIG_LABEL) # EmptyStr
                 THEN Getenv(K_APP_CONFIG_LABEL) ELSE env
    IN  IF Getenv(K_APP_CONFIG_SKIP) = envTrue THEN {Ok(EmptyMap)}
        ELSE IF name = EmptyStr THEN {Ok(EmptyMap)}
        ELSE {[values |-> f.values, nilMap |-> f.nilMap, err |-> f.err, calls |-> f.calls] :
                 f \in fetchAzureAppConfigWithImage(name, label, determineServiceName)}

ProviderLoad(p, envfile, env) ==
    CASE p = ProvAzure -> AzureAppConfigProviderLoad(env)
      [] p = ProvEnvFile -> EnvFileProviderLoad(envfile)
      [] p = ProvEnvironment -> EnvironmentProviderLoad

(***************************************************************************)
(* Config: Get, Set, GetAll, Require, Has, applyFallbacks, Load.           *)
(* `values` is the Config's map.                                           *)
(***************************************************************************)
\* A lookup under the key as written.
GetAsWritten(values, key) ==
    IF key \in DOMAIN values THEN values[key] ELSE EmptyStr

\* Config.Get
Get(values, key) ==
    IF ToUpper(key) \in DOMAIN values THEN values[ToUpper(key)] ELSE EmptyStr

\* A store under the key as written.
SetAsWritten(values, key, value) == Put(values, key, value)

\* Config.Set: the map after the call
Set(values, key, value) == Put(values, ToUpper(key), value)

\* Config.Has
Has(values, key) == Get(values, key) # EmptyStr

\* A Require that fails only when the key is absent from the map.
RequireAbsentOnly(values, key) ==
    IF ToUpper(key) \notin DOMAIN values
    THEN [panic |-> TRUE, value |-> EmptyStr]
    ELSE [panic |-> FALSE, value |-> values[ToUpper(key)]]

\* Config.Require: [panic, value]
Require(values, key) ==
    IF Get(values, key) = EmptyStr
    THEN [panic |-> TRUE, value |-> EmptyStr]
    ELSE [panic |-> FALSE, value |-> Get(values, key)]

\* A fallback that also derives REGISTRY from ACR_REGISTRY.
applyFallbacksBothWays(values) ==
    LET v1 == IF Get(values, K_ACR_REGISTRY) = EmptyStr /\ Get(values, K_REGISTRY) # EmptyStr
              THEN Set(values, K_ACR_REGISTRY, Get(values, K_REGISTRY))
              ELSE values
        v2 == IF Get(v1, K_REGISTRY) = EmptyStr /\ Get(v1, K_ACR_REGISTRY) # EmptyStr
              THEN Set(v1, K_REGISTRY, Get(v1, K_ACR_REGISTRY))
              ELSE v1
    IN  IF Get(v2, K_IMAGE_REGISTRY) = EmptyStr /\ Get(v2, K_ACR_REGISTRY) # EmptyStr
        THEN Set(v2, K_IMAGE_REGISTRY, Get(v2, K_ACR_REGISTRY))
        ELSE v2

\* Config.applyFallbacks
applyFallbacks(values) ==
    LET v1 == IF Get(values, K_ACR_REGISTRY) = EmptyStr /\ Get(values, K_REGISTRY) # EmptyStr
              THEN Set(values, K_ACR_REGISTRY, Get(values, K_REGISTRY))
              ELSE values
    IN  IF Get(v1, K_IMAGE_REGISTRY) = EmptyStr /\ Get(v1, K_ACR_REGISTRY) # EmptyStr
        THEN Set(v1, K_IMAGE_REGISTRY, Get(v1, K_ACR_REGISTRY))
        ELSE v1

Swap(q, i, j) == [q EXCEPT ![i] = q[j], ![j] = q[i]]

RECURSIVE SortInner(_, _, _)
SortInner(q, i, j) ==
    IF j > Len(q) THEN q
    ELSE SortInner(IF Priority(q[i]) < Priority(q[j]) THEN Swap(q, i, j) ELSE q, i, j + 1)

RECURSIVE SortOuter(_, _)
SortOuter(q, i) ==
    IF i > Len(q) - 1 THEN q ELSE SortOuter(SortInner(q, i, i + 1), i + 1)

\* The provider list of Config.Load after its sort ("highest first").
SortedProviders == SortOuter(<<ProvAzure, ProvEnvFile, ProvEnvironment>>, 1)

RECURSIVE LoadFrom(_, _, _, _, _)
\* The loop of Config.Load from provider number i on: a provider that
\* returns an error is skipped, the values of the others are written into
\* the map under upper-cased keys.  Results are [values, trace].
LoadFrom(values, trace, i, envfile, env) ==
    IF i > Len(SortedProviders) THEN {[values |-> values, trace |-> trace]}
    ELSE UNION {
        LET t == Append(trace, [name |-> SortedProviders[i], values |-> o.values,
                                nilMap |-> o.nilMap, err |-> o.err,
                                calls |-> IF "calls" \in DOMAIN o THEN o.calls ELSE <<>>])
        IN  IF o.err # NilErr
            THEN LoadFrom(values, t, i + 1, envfile, env)
            ELSE UNION {LoadFrom(Overlay(values, r), t, i + 1, envfile, env) :
                           r \in UpperCollapse(o.values)}
        : o \in ProviderLoad(SortedProviders[i], envfile, env)}

RECURSIVE LoadFromStop(_, _, _, _, _)
LoadFromStop(values, trace, i, envfile, env) ==
    IF i > Len(SortedProviders) THEN {[values |-> values, trace |-> trace, err |-> NilErr]}
    ELSE UNION {
        LET t == Append(trace, [name |-> SortedProviders[i], values |-> o.values,
                                nilMap |-> o.nilMap, err |-> o.err,
                                calls |-> IF "calls" \in DOMAIN o THEN o.calls ELSE <<>>])
        IN  IF o.err # NilErr
            THEN {[values |-> values, trace |-> t, err |-> o.err]}
            ELSE UNION {LoadFromStop(Overlay(values, r), t, i + 1, envfile, env) :
                           r \in UpperCollapse(o.values)}
        : o \in ProviderLoad(SortedProviders[i], envfile, env)}

\* A Load that gives up at the first provider that fails.
LoadStopAtError(values, envfile, env) ==
    {[values |-> l.values, err |-> l.err, trace |-> l.trace, merged |-> l.values] :
        l \in LoadFromStop(values, <<>>, 1, envfile, env)}

\* Config.Load on a Config whose map is `values`: the possible
\* [values, err, trace] when it returns; merged is the map as the provider
\* loop left it, before applyFallbacks.
Load(values, envfile, env) ==
    {[values |-> applyFallbacks(l.values), err |-> NilErr, trace |-> l.trace,
      merged |-> l.values] :
        l \in LoadFrom(values, <<>>, 1, envfile, env)}

(***************************************************************************)
(* The operations of the package, one action per call.                     *)
(***************************************************************************)
\* An Init without the sync.Once: every call builds and loads a new Config.
InitCallEveryTime(envfile, env) ==
    /\ Len(initResults) < MaxInits
    /\ \E l \in Load(EmptyMap, envfile, env) :
           /\ heap' = Append(heap, l.values)
           /\ globalConfig' = Len(heap) + 1
           /\ onceDone' = TRUE
           /\ loadCount' = loadCount + 1
           /\ loadTrace' = l.trace
           /\ initResults' = Append(initResults, l.err)
           /\ ret' = [op |-> "Init", err |-> l.err, envfile |-> envfile, env |-> env,
                      merged |-> l.merged]
    /\ UNCHANGED <<mu, goroutines, environ, envFile, remote, setLog, returned, mutations>>

\* config.Init(ctx, envfile, env): configOnce.Do(New + Load); the function
\* returns its local initErr, which only the first call assigns.
InitCall(envfile, env) ==
    /\ Len(initResults) < MaxInits
    /\ IF ~onceDone
       THEN \E l \in Load(EmptyMap, envfile, env) :
               /\ heap' = Append(heap, l.values)
               /\ globalConfig' = Len(heap) + 1
               /\ onceDone' = TRUE
               /\ loadCount' = loadCount + 1
               /\ loadTrace' = l.trace
               /\ initResults' = Append(initResults, l.err)
               /\ ret' = [op |-> "Init", err |-> l.err, envfile |-> envfile, env |-> env,
                          merged |-> l.merged]
       ELSE /\ initResults' = Append(initResults, NilErr)
            /\ ret' = [op |-> "Init", err |-> NilErr, envfile |-> envfile, env |-> env]
            /\ UNCHANGED <<heap, globalConfig, onceDone, loadCount, loadTrace>>
    /\ UNCHANGED <<mu, goroutines, environ, envFile, remote, setLog, returned, mutations>>

\* config.Current().Set(key, value)
SetCall(key, value) ==
    /\ globalConfig # 0
    /\ Len(setLog) < MaxSets
    /\ heap' = [heap EXCEPT ![globalConfig] = Set(@, key, value)]
    /\ setLog' = Append(setLog, <<key, value>>)
    /\ ret' = [op |-> "Set", key |-> key, value |-> value]
    /\ UNCHANGED <<mu, goroutines, environ, envFile, remote, globalConfig, onceDone, loadCount,
                   loadTrace, initResults, returned, mutations>>

\* config.Current().Get(key)
GetCall(key) ==
    /\ globalConfig # 0
    /\ ret' = [op |-> "Get", key |-> key, value |-> Get(heap[globalConfig], key)]
    /\ UNCHANGED <<mu, goroutines, environ, envFile, remote, heap, globalConfig, onceDone, loadCount,
                   loadTrace, initResults, setLog, returned, mutations>>

\* config.Current().Has(key)
HasCall(key) ==
    /\ globalConfig # 0
    /\ ret' = [op |-> "Has", key |-> key, has |-> Has(heap[globalConfig], key)]
    /\ UNCHANGED <<mu, goroutines, environ, envFile, remote, heap, globalConfig, onceDone, loadCount,
                   loadTrace, initResults, setLog, returned, mutations>>

\* config.Current().Require(key): returns the value or panics
RequireCall(key) ==
    /\ globalConfig # 0
    /\ ret' = [op |-> "Require", key |-> key,
               panic |-> Require(heap[globalConfig], key).panic,
               value |-> Require(heap[globalConfig], key).value,
               before |-> heap[globalConfig]]
    /\ UNCHANGED <<mu, goroutines, environ, envFile, remote, heap, globalConfig, onceDone, loadCount,
                   loadTrace, initResults, setLog, returned, mutations>>

\* The earlier variant of GetAll: it returns the Config's own map.
GetAllAlias(h, cfg) == [heap |-> h, ref |-> cfg]

\* Config.GetAll on the Config whose map is h[cfg]: a new map is allocated
\* and filled with the entries; [heap, ref] are the heap after the call and
\* the identity of the map returned.
GetAll(h, cfg) == [heap |-> Append(h, h[cfg]), ref |-> Len(h) + 1]

\* config.Current().GetAll()
GetAllCall ==
    /\ globalConfig # 0
    /\ Cardinality(returned) < MaxGetAll
    /\ heap' = GetAll(heap, globalConfig).heap
    /\ returned' = returned \cup {GetAll(heap, globalConfig).ref}
    /\ ret' = [op |-> "GetAll", ref |-> GetAll(heap, globalConfig).ref,
               before |-> heap[globalConfig]]
    /\ UNCHANGED <<mu, goroutines, environ, envFile, remote, globalConfig, onceDone, loadCount,
                   loadTrace, initResults, setLog, mutations>>

\* The caller writes m[key] = value into a map m it got from GetAll.
WriteReturned(ref, key, value) ==
    /\ ref \in returned
    /\ mutations < MaxMutations
    /\ heap' = [heap EXCEPT ![ref] = Put(@, key, value)]
    /\ mutations' = mutations + 1
    /\ ret' = [op |-> "Mutate", ref |-> ref, before |-> heap[globalConfig]]
    /\ UNCHANGED <<mu, goroutines, environ, envFile, remote, globalConfig, onceDone, loadCount,
                   loadTrace, initResults, setLog, returned>>

\* The caller runs delete(m, key) on a map m it got from GetAll.
DeleteReturned(ref, key) ==
    /\ ref \in returned
    /\ mutations < MaxMutations
    /\ key \in DOMAIN heap[ref]
    /\ heap' = [heap EXCEPT ![ref] = Remove(@, key)]
    /\ mutations' = mutations + 1
    /\ ret' = [op |-> "Mutate", ref |-> ref, before |-> heap[globalConfig]]
    /\ UNCHANGED <<mu, goroutines, environ, envFile, remote, globalConfig, onceDone, loadCount,
                   loadTrace, initResults, setLog, returned>>

\* One call of fetchAzureAppConfigWithImage(ctx, name, label, imageName).
FetchCall(name, label, imageName) ==
    /\ \E f \in fetchAzureAppConfigWithImage(name, label, imageName) :
           ret' = [op |-> "Fetch", name |-> name, label |-> label, imageName |-> imageName,
                   values |-> f.values, nilMap |-> f.nilMap, err |-> f.err, calls |-> f.calls]
    /\ UNCHANGED <<mu, goroutines, environ, envFile, remote, heap, globalConfig, onceDone, loadCount,
                   loadTrace, initResults, setLog, returned, mutations>>

(***************************************************************************)
(* Package cli: what the commands read from the CI context.                *)
(* The commands change APP_CONFIG_NAME and APP_CONFIG_LABEL only, which    *)
(* none of these functions reads.                                          *)
(***************************************************************************)
\* strings.ToLower
ToLower(s) == [i \in 1..Len(s) |-> LowerChar(s[i])]

\* strings.HasPrefix, strings.TrimPrefix
HasPrefix(s, p) == Len(s) >= Len(p) /\ SubSeq(s, 1, Len(p)) = p
TrimPrefix(s, p) == IF HasPrefix(s, p) THEN SubSeq(s, Len(p) + 1, Len(s)) ELSE s

\* strings.TrimSpace
IsSpace(c) == c \in {" ", "\n", "\t", "\r"}
RECURSIVE TrimSpace(_)
TrimSpace(s) ==
    IF s = EmptyStr THEN s
    ELSE IF IsSpace(s[1]) THEN TrimSpace(SubSeq(s, 2, Len(s)))
    ELSE IF IsSpace(s[Len(s)]) THEN TrimSpace(SubSeq(s, 1, Len(s) - 1))
    ELSE s

\* fmt.Sprintf("%s-%s", a, b)
Dashed(a, b) == a \o <<"-">> \o b

\* fmt.Sprintf("%s_NAME", strings.ToUpper(env))
EnvKey(env, name) == ToUpper(env) \o <<"_">> \o name

\* isCIEnvironment
ciVars == <<K_CI, K_GITHUB_ACTIONS, K_AZURE_PIPELINE, K_GITLAB_CI, K_JENKINS_URL, K_TRAVIS, K_CIRCLECI>>
isCIEnvironment == \E i \in 1..Len(ciVars) : Getenv(ciVars[i]) # EmptyStr

\* A detection that asks ENVIRONMENT first and keeps the case of what it finds.
detectEnvironmentExplicitFirst ==
    IF Getenv(K_ENVIRONMENT) # EmptyStr THEN Getenv(K_ENVIRONMENT)
    ELSE IF Getenv(K_AZURE_PIPELINE) = envTrue /\ Getenv(K_SYSTEM_ENVIRONMENT) # EmptyStr
    THEN Getenv(K_SYSTEM_ENVIRONMENT)
    ELSE IF Getenv(K_GITLAB_CI) = envTrue /\ Getenv(K_CI_ENVIRONMENT_NAME) # EmptyStr
    THEN Getenv(K_CI_ENVIRONMENT_NAME)
    ELSE EmptyStr

\* detectEnvironmentFromCI
detectEnvironmentFromCI ==
    LET ref == Getenv(K_GITHUB_REF)
        branch == TrimPrefix(ref, RefsHeads)
        fromGitHub ==
            IF Getenv(K_GITHUB_ACTIONS) = envTrue /\ HasPrefix(ref, RefsHeads)
            THEN CASE branch \in {envDev, envDevelopment} -> envDev
                   [] branch = envStaging -> envStaging
                   [] branch \in {BranchMain, BranchMaster, envProd, envProduction} -> envProd
                   [] OTHER -> EmptyStr
            ELSE EmptyStr
    IN  IF fromGitHub # EmptyStr THEN fromGitHub
        ELSE IF Getenv(K_AZURE_PIPELINE) = envTrue /\ Getenv(K_SYSTEM_ENVIRONMENT) # EmptyStr
        THEN ToLower(Getenv(K_SYSTEM_ENVIRONMENT))
        ELSE IF Getenv(K_GITLAB_CI) = envTrue /\ Getenv(K_CI_ENVIRONMENT_NAME) # EmptyStr
        THEN ToLower(Getenv(K_CI_ENVIRONMENT_NAME))
        ELSE IF Getenv(K_ENVIRONMENT) # EmptyStr
        THEN ToLower(Getenv(K_ENVIRONMENT))
        ELSE EmptyStr

\* detectImageNameFromCI
detectImageNameFromCI ==
    LET parts == Split(Getenv(K_GITHUB_REPOSITORY), "/")
    IN  IF /\ Getenv(K_GITHUB_ACTIONS) = envTrue
           /\ Getenv(K_GITHUB_REPOSITORY) # EmptyStr
           /\ Len(parts) = 2
        THEN parts[2]
        ELSE IF Getenv(K_AZURE_PIPELINE) = envTrue /\ Getenv(K_BUILD_REPOSITORY_NAME) # EmptyStr
        THEN Getenv(K_BUILD_REPOSITORY_NAME)
        ELSE IF Getenv(K_GITLAB_CI) = envTrue /\ Getenv(K_CI_PROJECT_NAME) # EmptyStr
        THEN Getenv(K_CI_PROJECT_NAME)
        ELSE EmptyStr

\* detectImageTagFromCI
detectImageTagFromCI ==
    IF Getenv(K_GITHUB_ACTIONS) = envTrue /\ Getenv(K_GITHUB_SHA) # EmptyStr
    THEN Getenv(K_GITHUB_SHA)
    ELSE IF Getenv(K_AZURE_PIPELINE) = envTrue /\ Getenv(K_BUILD_BUILDID) # EmptyStr
    THEN Getenv(K_BUILD_BUILDID)
    ELSE IF Getenv(K_AZURE_PIPELINE) = envTrue /\ Getenv(K_BUILD_SOURCEVERSION) # EmptyStr
    THEN Getenv(K_BUILD_SOURCEVERSION)
    ELSE IF Getenv(K_GITLAB_CI) = envTrue /\ Getenv(K_CI_COMMIT_SHA) # EmptyStr
    THEN Getenv(K_CI_COMMIT_SHA)
    ELSE EmptyStr

\* Statements in sequence: F applied to the value of e, computed once.
Bind(e, F(_)) == CHOOSE r \in {F(v) : v \in {e}} : TRUE

\* `if cfg.Get(key) == "" { cfg.Set(key, value) }`, with nothing to set when value is ""
SetIfUnset(values, key, value) ==
    IF Get(values, key) = EmptyStr /\ value # EmptyStr THEN Set(values, key, value) ELSE values

\* The environment name a command works with: the --env flag, or in CI
\* what detectEnvironmentFromCI finds.
EffectiveEnv(envFlag) ==
    IF envFlag = EmptyStr /\ isCIEnvironment /\ detectEnvironmentFromCI # EmptyStr
    THEN detectEnvironmentFromCI
    ELSE envFlag

\* The auto-detection of IMAGE_NAME and IMAGE_TAG the commands do in CI.
DetectImage(values) ==
    Bind(SetIfUnset(values, K_IMAGE_NAME, detectImageNameFromCI),
         LAMBDA v1 : SetIfUnset(v1, K_IMAGE_TAG, detectImageTagFromCI))

(***************************************************************************)
(* Package validation.                                                     *)
(***************************************************************************)
\* strings.Join
RECURSIVE Join(_, _)
Join(q, sep) ==
    IF q = <<>> THEN EmptyStr
    ELSE IF Len(q) = 1 THEN q[1]
    ELSE q[1] \o sep \o Join(Tail(q), sep)

CommaSpace == <<",", " ">>
MsgMissingEnvVars == <<"m", "i", "s", "s", "i", "n", "g", " ", "r", "e", "q", "u", "i", "r", "e", "d", " ", "e", "n", "v", "i", "r", "o", "n", "m", "e", "n", "t", " ", "v", "a", "r", "i", "a", "b", "l", "e", "s", ":", " ">>
MsgMissingCfgVars == <<"m", "i", "s", "s", "i", "n", "g", " ", "r", "e", "q", "u", "i", "r", "e", "d", " ", "c", "o", "n", "f", "i", "g", "u", "r", "a", "t", "i", "o", "n", " ", "v", "a", "r", "i", "a", "b", "l", "e", "s", ":", " ">>

\* A check that stops at the first missing name.
RequiredVarsFirstMissing(values, required) ==
    IF SelectSeq(required, LAMBDA v : ~Has(values, v)) = <<>> THEN <<>>
    ELSE <<SelectSeq(required, LAMBDA v : ~Has(values, v))[1]>>

\* validation.RequiredVars: the missing names in the order of vars; the
\* call returns an error iff the result is not empty
RequiredVars(values, required) == SelectSeq(required, LAMBDA v : ~Has(values, v))

\* The error of validation.RequiredVars: nil, or the message of the one
\* error it returns
RequiredVarsError(values, required) ==
    IF Len(RequiredVars(values, required)) > 0
    THEN [nil |-> FALSE,
          msg |-> MsgMissingEnvVars \o Join(RequiredVars(values, required), CommaSpace)]
    ELSE [nil |-> TRUE, msg |-> EmptyStr]

\* Config.Validate
Validate(values, required) ==
    IF Len(SelectSeq(required, LAMBDA v : ~Has(values, v))) > 0
    THEN [nil |-> FALSE,
          msg |-> MsgMissingCfgVars
                  \o Join(SelectSeq(required, LAMBDA v : ~Has(values, v)), CommaSpace)]
    ELSE [nil |-> TRUE, msg |-> EmptyStr]

WebAppRequiredVars == <<K_RESOURCE_GROUP, K_ACR_REGISTRY, K_IMAGE_NAME, K_IMAGE_TAG>>

ACIRequiredVars ==
    <<K_RESOURCE_GROUP, K_CONTAINER_GROUP_NAME, K_LOCATION, K_OS_TYPE, K_DNS_NAME_LABEL,
      K_ACI_PORT, K_ACI_CPU, K_ACI_MEMORY, K_ACR_REGISTRY, K_IMAGE_NAME, K_IMAGE_TAG,
      K_ACR_USERNAME, K_ACR_PASSWORD>>

Elems(q) == {q[i] : i \in 1..Len(q)}

(***************************************************************************)
(* The commands.  A command runs after PersistentPreRunE has initialised   *)
(* the configuration; cfg is config.Current().  aciRun and webappRun       *)
(* follow their handler up to the point where the configuration is final   *)
(* and validated; the rest of the handler reads cfg, writes neither cfg    *)
(* nor the environment, and is aciDeploy and webappDeploy further down.    *)
(***************************************************************************)
StageEnvRequired == "environment required"
StageTemplateNotFound == "template not found"
StageValidationFailed == "validation failed"
StageNoACRResourceGroup == "ACR resource group not found"
StageValidated == "validated"
StageBuilt == "built"
StageBuildFailed == "build failed"

\* root.PersistentPreRunE, which cobra runs first: --env selects the dotenv
\* file, then config.Init
PersistentPreRunE(envfileFlag, envFlag) ==
    /\ ret.op = "none"
    /\ InitCall(IF envFlag # EmptyStr /\ envfileFlag = DotEnvPath
                THEN DotEnvPath \o <<".">> \o envFlag
                ELSE envfileFlag,
                envFlag)

\* applyACIDefaults
aciDefaults ==
    <<<<K_LOCATION, D_eastus>>, <<K_OS_TYPE, D_Linux>>, <<K_ACI_PORT, D_8080>>,
      <<K_ACI_CPU, D_1>>, <<K_ACI_MEMORY, D_2>>, <<K_LOG_SHARE_NAME, D_applogs>>,
      <<K_LOG_STORAGE_ACCOUNT, D_swarmlogs>>, <<K_LOG_STORAGE_KEY, D_placeholder_key>>,
      <<K_FLUENTBIT_CONFIG_SHARE, D_fluentbit_config>>>>

RECURSIVE SetDefaults(_, _, _)
SetDefaults(values, defaults, i) ==
    IF i > Len(defaults) THEN values
    ELSE Bind(SetIfUnset(values, defaults[i][1], defaults[i][2]),
              LAMBDA v : SetDefaults(v, defaults, i + 1))

applyACIDefaults(values, envName) ==
    Bind(SetDefaults(values, aciDefaults, 1), LAMBDA v1 :
        IF envName = EmptyStr \/ Get(v1, K_DNS_NAME_LABEL) # EmptyStr THEN v1
        ELSE IF Get(v1, K_CONTAINER_GROUP_NAME) # EmptyStr
        THEN Set(v1, K_DNS_NAME_LABEL, Dashed(Get(v1, K_CONTAINER_GROUP_NAME), envName))
        ELSE IF Get(v1, K_IMAGE_NAME) # EmptyStr
        THEN Set(Set(v1, K_CONTAINER_GROUP_NAME, Get(v1, K_IMAGE_NAME)),
                 K_DNS_NAME_LABEL, Dashed(Get(v1, K_IMAGE_NAME), envName))
        ELSE v1)

\* The CI auto-detection of the aci command: IMAGE_NAME, IMAGE_TAG,
\* CONTAINER_GROUP_NAME and DNS_NAME_LABEL.
aciDetectFromCI(values, envName) ==
    Bind(DetectImage(values), LAMBDA v2 :
    Bind(SetIfUnset(v2, K_CONTAINER_GROUP_NAME, detectImageNameFromCI), LAMBDA v3 :
        IF /\ Get(v3, K_DNS_NAME_LABEL) = EmptyStr
           /\ Get(v3, K_CONTAINER_GROUP_NAME) # EmptyStr
           /\ envName # EmptyStr
        THEN Set(v3, K_DNS_NAME_LABEL, Dashed(Get(v3, K_CONTAINER_GROUP_NAME), envName))
        ELSE v3))

\* The resource group the aci command works with, and cfg after the
\* mapping of <ENV>_RESOURCE_GROUP: [values, resourceGroup]
aciResourceGroup(values, envName, resourceGroupFlag) ==
    Bind(IF resourceGroupFlag = EmptyStr THEN Get(values, K_RESOURCE_GROUP)
         ELSE resourceGroupFlag, LAMBDA rg1 :
        IF rg1 # EmptyStr THEN [values |-> values, resourceGroup |-> rg1]
        ELSE Bind(Get(values, EnvKey(envName, K_RESOURCE_GROUP)), LAMBDA rg2 :
                 [values |-> IF rg2 # EmptyStr THEN Set(values, K_RESOURCE_GROUP, rg2)
                             ELSE values,
                  resourceGroup |-> rg2]))

\* newACICmd RunE up to the validation: [values, stage, missing, resourceGroup, envName]
aciRun(values, envFlag, resourceGroupFlag, statTemplate, statFallback) ==
    Bind(EffectiveEnv(envFlag), LAMBDA envName :
    Bind(IF envName # EmptyStr THEN Set(values, K_ENV_NAME, envName) ELSE values, LAMBDA v1 :
    Bind(IF isCIEnvironment THEN aciDetectFromCI(v1, envName) ELSE v1, LAMBDA v2 :
        IF ~statTemplate /\ ~statFallback
        THEN [values |-> v2, stage |-> StageTemplateNotFound, missing |-> <<>>,
              resourceGroup |-> resourceGroupFlag, envName |-> envName]
        ELSE
    Bind(aciResourceGroup(v2, envName, resourceGroupFlag), LAMBDA rg :
    Bind(SetIfUnset(rg.values, K_IMAGE_REGISTRY, Get(rg.values, K_ACR_REGISTRY)), LAMBDA v4 :
    Bind(applyACIDefaults(v4, envName), LAMBDA v5 :
    Bind(RequiredVars(v5, ACIRequiredVars), LAMBDA missing :
        [values |-> v5,
         stage |-> IF missing # <<>> THEN StageValidationFailed ELSE StageValidated,
         missing |-> missing, resourceGroup |-> rg.resourceGroup,
         envName |-> envName])))))))

\* getWebAppName
getWebAppName(values, env) ==
    IF Get(values, EnvKey(env, K_WEBAPP_NAME)) # EmptyStr
    THEN Get(values, EnvKey(env, K_WEBAPP_NAME))
    ELSE IF Get(values, K_WEBAPP_NAME) # EmptyStr THEN Get(values, K_WEBAPP_NAME)
    ELSE Dashed(IF Get(values, K_IMAGE_NAME) = EmptyStr THEN DefaultWebApp
                ELSE Get(values, K_IMAGE_NAME), env)

\* getAppServicePlan
getAppServicePlan(values, env) ==
    IF Get(values, EnvKey(env, K_APP_SERVICE_PLAN)) # EmptyStr
    THEN Get(values, EnvKey(env, K_APP_SERVICE_PLAN))
    ELSE Get(values, K_APP_SERVICE_PLAN)

\* newWebAppCmd RunE up to the validation
webappRun(values, envFlag, resourceGroupFlag, nameFlag, planFlag) ==
    Bind(EffectiveEnv(envFlag), LAMBDA envName :
        IF envName = EmptyStr
        THEN [values |-> values, stage |-> StageEnvRequired, missing |-> <<>>,
              resourceGroup |-> resourceGroupFlag, envName |-> envName,
              webAppName |-> nameFlag, appServicePlan |-> planFlag]
        ELSE
    Bind(IF isCIEnvironment THEN DetectImage(values) ELSE values, LAMBDA v1 :
    Bind(RequiredVars(v1, WebAppRequiredVars), LAMBDA missing :
        [values |-> v1,
         stage |-> IF missing # <<>> THEN StageValidationFailed ELSE StageValidated,
         missing |-> missing,
         resourceGroup |-> IF resourceGroupFlag = EmptyStr THEN Get(v1, K_RESOURCE_GROUP)
                           ELSE resourceGroupFlag,
         envName |-> envName,
         webAppName |-> IF nameFlag = EmptyStr THEN getWebAppName(v1, envName)
                        ELSE nameFlag,
         appServicePlan |-> IF planFlag = EmptyStr THEN getAppServicePlan(v1, envName)
                            ELSE planFlag])))

\* One pass of mapEnvironmentVariables over a list of names: a name that
\* is unset takes the value of its <ENV>_ name.
RECURSIVE MapPrefixed(_, _, _, _, _)
MapPrefixed(values, names, i, envName, infix) ==
    IF i > Len(names) THEN values
    ELSE Bind(SetIfUnset(values, names[i], Get(values, EnvKey(envName, infix \o names[i]))),
              LAMBDA v : MapPrefixed(v, names, i + 1, envName, infix))

\* mapEnvironmentVariables, for a non-empty envName
mapEnvironmentVariables(values, envName) ==
    IF ~isCIEnvironment THEN values
    ELSE Bind(DetectImage(values), LAMBDA v1 :
         Bind(MapPrefixed(v1, variableMappings, 1, envName, EmptyStr), LAMBDA v2 :
             MapPrefixed(v2, aciMappings, 1, envName, ACIPrefix)))

\* reloadConfigWithEnvironment once configOnce has run: the environment it
\* leaves and the Config's map after it.  Its config.Init is then the no-op
\* that returns nil.
reloadConfigWithEnvironment(values, envName) ==
    Bind(Get(values, EnvKey(envName, K_APP_CONFIG)), LAMBDA fromCfg :
        [environ |-> Put(Put(environ, K_APP_CONFIG_NAME,
                             IF fromCfg = EmptyStr THEN AppConfigPrefix \o envName
                             ELSE fromCfg),
                         K_APP_CONFIG_LABEL, envName),
         values |-> IF isCIEnvironment THEN mapEnvironmentVariables(values, envName)
                    ELSE values])

\* findACRResourceGroup: listOk and listOut are what `az group list` answers,
\* acrIn the resource groups in which `az acr show` finds the registry.
RECURSIVE FirstWithACR(_, _, _)
FirstWithACR(groups, i, acrIn) ==
    IF i > Len(groups) THEN EmptyStr
    ELSE IF TrimSpace(groups[i]) # EmptyStr /\ TrimSpace(groups[i]) \in acrIn
    THEN TrimSpace(groups[i])
    ELSE FirstWithACR(groups, i + 1, acrIn)

findACRResourceGroup(registryName, listOk, listOut, acrIn) ==
    IF registryName = EmptyStr \/ ~listOk THEN EmptyStr
    ELSE FirstWithACR(Split(TrimSpace(listOut), "\n"), 1, acrIn)

\* collectBuildArgs: the NEXT_PUBLIC_ entries of cfg.GetAll()
collectBuildArgs(values) ==
    {<<k, values[k]>> : k \in {x \in DOMAIN values : HasPrefix(x, NextPublicPrefix)}}

acrRequiredVars == <<K_IMAGE_NAME, K_IMAGE_TAG, K_REGISTRY>>

\* The flag overrides of the acr command.
acrFlags(values, registry, resourceGroup, imageName, imageTag) ==
    Bind(IF registry # EmptyStr THEN Set(values, K_REGISTRY, registry) ELSE values, LAMBDA v1 :
    Bind(IF resourceGroup # EmptyStr THEN Set(v1, K_ACR_RESOURCE_GROUP, resourceGroup)
         ELSE v1, LAMBDA v2 :
    Bind(IF imageName # EmptyStr THEN Set(v2, K_IMAGE_NAME, imageName) ELSE v2, LAMBDA v3 :
        IF imageTag # EmptyStr THEN Set(v3, K_IMAGE_TAG, imageTag) ELSE v3)))

\* newACRCmd RunE
acrRun(values, envFlag, registry, resourceGroup, imageName, imageTag, listOk, listOut, acrIn, buildOk) ==
    Bind(EffectiveEnv(envFlag), LAMBDA envName :
    Bind(IF envName # EmptyStr THEN reloadConfigWithEnvironment(values, envName)
         ELSE [environ |-> environ, values |-> values], LAMBDA re :
    Bind(acrFlags(re.values, registry, resourceGroup, imageName, imageTag), LAMBDA v4 :
    Bind(RequiredVars(v4, acrRequiredVars), LAMBDA missing :
    Bind([environ |-> re.environ, values |-> v4, reloaded |-> envName # EmptyStr,
          envName |-> envName, stage |-> StageValidated, missing |-> <<>>,
          resourceGroup |-> EmptyStr, registry |-> EmptyStr, image |-> EmptyStr,
          buildArgs |-> {}], LAMBDA r :
        IF missing # <<>>
        THEN [r EXCEPT !.stage = StageValidationFailed, !.missing = <<missing[1]>>]
        ELSE
    Bind(IF Get(v4, K_ACR_RESOURCE_GROUP) # EmptyStr THEN Get(v4, K_ACR_RESOURCE_GROUP)
         ELSE findACRResourceGroup(Get(v4, K_REGISTRY), listOk, listOut, acrIn),
         LAMBDA acrResourceGroup :
        IF acrResourceGroup = EmptyStr
        THEN [r EXCEPT !.stage = StageNoACRResourceGroup]
        ELSE [r EXCEPT !.stage = IF buildOk THEN StageBuilt ELSE StageBuildFailed,
                       !.resourceGroup = acrResourceGroup,
                       !.registry = Get(v4, K_REGISTRY),
                       !.image = Get(v4, K_IMAGE_NAME) \o <<":">> \o Get(v4, K_IMAGE_TAG),
                       !.buildArgs = collectBuildArgs(v4)]))))))

\* The commands run once PersistentPreRunE has returned nil.
Initialised == globalConfig # 0 /\ ret.op = "Init" /\ ret.err = NilErr

\* azctl acr
RunACR(registry, resourceGroup, imageName, imageTag, listOk, listOut, acrIn, buildOk) ==
    /\ Initialised
    /\ \E r \in {acrRun(heap[globalConfig], ret.env, registry, resourceGroup, imageName,
                        imageTag, listOk, listOut, acrIn, buildOk)} :
           /\ heap' = [heap EXCEPT ![globalConfig] = r.values]
           /\ environ' = r.environ
           /\ initResults' = IF r.reloaded THEN Append(initResults, NilErr) ELSE initResults
           /\ ret' = [op |-> "acr", stage |-> r.stage, missing |-> r.missing,
                      resourceGroup |-> r.resourceGroup, envName |-> r.envName,
                      registry |-> r.registry, image |-> r.image, buildArgs |-> r.buildArgs,
                      flags |-> (K_REGISTRY :> registry) @@ (K_ACR_RESOURCE_GROUP :> resourceGroup)
                                @@ (K_IMAGE_NAME :> imageName) @@ (K_IMAGE_TAG :> imageTag)]
    /\ UNCHANGED <<mu, goroutines, envFile, remote, globalConfig, onceDone, loadCount,
                   loadTrace, setLog, returned, mutations>>

\* validation.RequiredVars(config.Current(), vars)
RequiredVarsCall(required) ==
    /\ globalConfig # 0
    /\ ret' = [op |-> "RequiredVars", keys |-> required,
               err |-> RequiredVarsError(heap[globalConfig], required),
               before |-> heap[globalConfig]]
    /\ UNCHANGED <<mu, goroutines, environ, envFile, remote, heap, globalConfig, onceDone, loadCount,
                   loadTrace, initResults, setLog, returned, mutations>>

\* config.Current().Validate(required)
ValidateCall(required) ==
    /\ globalConfig # 0
    /\ ret' = [op |-> "Validate", keys |-> required,
               err |-> Validate(heap[globalConfig], required),
               before |-> heap[globalConfig]]
    /\ UNCHANGED <<mu, goroutines, environ, envFile, remote, heap, globalConfig, onceDone, loadCount,
                   loadTrace, initResults, setLog, returned, mutations>>

(***************************************************************************)
(* Goroutines calling into one Config.  A call is split at its accesses    *)
(* to c.mu and to c.values, which are the steps other goroutines can       *)
(* interleave with.  mu.writer is the goroutine holding the write lock     *)
(* ("" for none), mu.readers the goroutines holding the read lock.         *)
(***************************************************************************)
Loader == "loader"
Goroutines == {Loader, "g1", "g2"}

\* What a read of a map that another goroutine is writing can give besides
\* the old and the new value.
Torn == <<"?">>

\* A goroutine that has not called anything yet.
Idle ==
    [call |-> "idle", pc |-> "idle", key |-> EmptyStr, result |-> EmptyStr, has |-> FALSE,
     pending |-> EmptyMap, cur |-> EmptyStr, copy |-> EmptyMap, i |-> 1, fb |-> 0,
     committed |-> EmptyStr, fatal |-> FALSE, envfile |-> EmptyStr, env |-> EmptyStr]

\* An RLock that does not wait for the writer.
RLockWithoutWaiting(g) == TRUE

\* sync.RWMutex.RLock returns when no goroutine holds the write lock.
CanRLock(g) == mu.writer = ""

\* sync.RWMutex.Lock returns when no goroutine holds the lock in either mode.
CanLock(g) == mu.writer = "" /\ mu.readers = {}

\* The goroutines other than g that are in the middle of a write of c.values.
WritingBeside(g) == {h \in DOMAIN goroutines \ {g} : goroutines[h].pc = "writing"}

\* The steps of applyFallbacks as calls of Get and Set: the call that
\* follows call number fb when that call returned r ("" after a Set), as
\* [fb, get, key, value]; fb = 0 when applyFallbacks returns.
FallbackDone == [fb |-> 0, get |-> FALSE, key |-> EmptyStr, value |-> EmptyStr]
FallbackGet(n, k) == [fb |-> n, get |-> TRUE, key |-> k, value |-> EmptyStr]
FallbackSet(n, k, v) == [fb |-> n, get |-> FALSE, key |-> k, value |-> v]
NextFallback(fb, r) ==
    CASE fb = 1 -> IF r = EmptyStr THEN FallbackGet(2, K_REGISTRY)
                   ELSE FallbackGet(4, K_IMAGE_REGISTRY)
      [] fb = 2 -> IF r # EmptyStr THEN FallbackSet(3, K_ACR_REGISTRY, r)
                   ELSE FallbackGet(4, K_IMAGE_REGISTRY)
      [] fb = 3 -> FallbackGet(4, K_IMAGE_REGISTRY)
      [] fb = 4 -> IF r = EmptyStr THEN FallbackGet(5, K_ACR_REGISTRY) ELSE FallbackDone
      [] fb = 5 -> IF r # EmptyStr THEN FallbackSet(6, K_IMAGE_REGISTRY, r) ELSE FallbackDone
      [] OTHER -> FallbackDone

\* The goroutine after a Get or a Set called by applyFallbacks has returned.
AfterFallbackCall(s, r) ==
    LET n == NextFallback(s.fb, r)
    IN  IF n.fb = 0 THEN [s EXCEPT !.pc = "return", !.fb = 0]
        ELSE IF n.get THEN [s EXCEPT !.pc = "RLock", !.fb = n.fb, !.key = n.key]
        ELSE [s EXCEPT !.pc = "Lock", !.fb = n.fb, !.key = n.key,
                       !.pending = ToUpper(n.key) :> n.value]

ConcUnchanged ==
    UNCHANGED <<environ, envFile, remote, globalConfig, onceDone, loadCount, loadTrace,
                initResults, setLog, returned, mutations, ret>>

\* go c.Get(key)
StartGet(g, key) ==
    /\ goroutines[g].call = "idle"
    /\ g # Loader
    /\ goroutines' = [goroutines EXCEPT ![g] = [@ EXCEPT !.call = "Get", !.pc = "RLock",
                                                         !.key = key]]
    /\ UNCHANGED <<heap, mu>>
    /\ ConcUnchanged

\* go c.Has(key)
StartHas(g, key) ==
    /\ goroutines[g].call = "idle"
    /\ g # Loader
    /\ goroutines' = [goroutines EXCEPT ![g] = [@ EXCEPT !.call = "Has", !.pc = "RLock",
                                                         !.key = key]]
    /\ UNCHANGED <<heap, mu>>
    /\ ConcUnchanged

\* go c.Set(key, value)
StartSet(g, key, value) ==
    /\ goroutines[g].call = "idle"
    /\ g # Loader
    /\ goroutines' = [goroutines EXCEPT ![g] = [@ EXCEPT !.call = "Set", !.pc = "Lock",
                                                         !.key = key,
                                                         !.pending = ToUpper(key) :> value]]
    /\ UNCHANGED <<heap, mu>>
    /\ ConcUnchanged

\* go c.GetAll()
StartGetAll(g) ==
    /\ goroutines[g].call = "idle"
    /\ g # Loader
    /\ goroutines' = [goroutines EXCEPT ![g] = [@ EXCEPT !.call = "GetAll", !.pc = "RLock"]]
    /\ UNCHANGED <<heap, mu>>
    /\ ConcUnchanged

\* go c.Load(ctx, envfile, env)
StartLoad(g, envfile, env) ==
    /\ goroutines[g].call = "idle"
    /\ g = Loader
    /\ goroutines' = [goroutines EXCEPT ![g] = [@ EXCEPT !.call = "Load", !.pc = "provider",
                                                         !.i = 1, !.envfile = envfile,
                                                         !.env = env]]
    /\ UNCHANGED <<heap, mu>>
    /\ ConcUnchanged

\* Config.Load: `values, err := provider.Load(ctx)` of the next provider, and
\* after the last one the call of applyFallbacks, which starts with
\* c.Get("ACR_REGISTRY").
LoadProvider(g) ==
    /\ goroutines[g].pc = "provider"
    /\ IF goroutines[g].i > Len(SortedProviders)
       THEN goroutines' = [goroutines EXCEPT ![g] = [@ EXCEPT !.pc = "RLock", !.fb = 1,
                                                               !.key = K_ACR_REGISTRY]]
       ELSE \E o \in ProviderLoad(SortedProviders[goroutines[g].i], goroutines[g].envfile,
                                  goroutines[g].env) :
               goroutines' = [goroutines EXCEPT ![g] =
                                 IF o.err # NilErr THEN [@ EXCEPT !.i = @ + 1]
                                 ELSE [@ EXCEPT !.pc = "Lock", !.pending = o.values]]
    /\ UNCHANGED <<heap, mu>>
    /\ ConcUnchanged

\* c.mu.RLock()
RLock(g) ==
    /\ goroutines[g].pc = "RLock"
    /\ CanRLock(g)
    /\ mu' = [mu EXCEPT !.readers = @ \cup {g}]
    /\ goroutines' = [goroutines EXCEPT ![g] =
                         [@ EXCEPT !.pc = IF goroutines[g].call = "GetAll" THEN "copy" ELSE "read",
                                   !.copy = EmptyMap]]
    /\ UNCHANGED heap
    /\ ConcUnchanged

\* `v, ok := c.values[strings.ToUpper(key)]` in Get.  A read while another
\* goroutine writes the map is a data race: the runtime may stop the program
\* ("concurrent map read and map write") or the read may give the old
\* value, the new one or neither.
MapRead(g) ==
    /\ goroutines[g].pc = "read"
    /\ IF WritingBeside(g) = {}
       THEN goroutines' = [goroutines EXCEPT ![g] =
                              [@ EXCEPT !.pc = "RUnlock",
                                        !.result = Get(heap[globalConfig], goroutines[g].key),
                                        !.committed = Get(heap[globalConfig], goroutines[g].key)]]
       ELSE \E r \in {Get(heap[globalConfig], goroutines[g].key), Torn}
                        \cup {goroutines[h].pending[goroutines[h].cur] : h \in WritingBeside(g)},
               f \in BOOLEAN :
               goroutines' = [goroutines EXCEPT ![g] =
                                 [@ EXCEPT !.pc = "RUnlock", !.result = r, !.fatal = f,
                                           !.committed = Get(heap[globalConfig], goroutines[g].key)]]
    /\ UNCHANGED <<heap, mu>>
    /\ ConcUnchanged

\* One iteration of `for k, v := range c.values { result[k] = v }` in
\* GetAll, or the end of the loop.
MapCopy(g) ==
    /\ goroutines[g].pc = "copy"
    /\ LET rest == DOMAIN heap[globalConfig] \ DOMAIN goroutines[g].copy
       IN  IF rest = {}
           THEN goroutines' = [goroutines EXCEPT ![g] = [@ EXCEPT !.pc = "RUnlock"]]
           ELSE \E k \in rest :
                   IF WritingBeside(g) = {}
                   THEN goroutines' = [goroutines EXCEPT ![g] =
                                          [@ EXCEPT !.copy = Put(@, k, heap[globalConfig][k])]]
                   ELSE \E r \in {heap[globalConfig][k], Torn}, f \in BOOLEAN :
                           goroutines' = [goroutines EXCEPT ![g] =
                                             [@ EXCEPT !.copy = Put(@, k, r), !.fatal = f]]
    /\ UNCHANGED <<heap, mu>>
    /\ ConcUnchanged

\* c.mu.RUnlock() and the return of Get, Has or GetAll; in applyFallbacks
\* the call that follows starts.
RUnlock(g) ==
    /\ goroutines[g].pc = "RUnlock"
    /\ mu' = [mu EXCEPT !.readers = @ \ {g}]
    /\ goroutines' = [goroutines EXCEPT ![g] =
                         IF @.call = "Load" THEN AfterFallbackCall(@, @.result)
                         ELSE [@ EXCEPT !.pc = "return", !.has = (goroutines[g].result # EmptyStr)]]
    /\ UNCHANGED heap
    /\ ConcUnchanged

\* c.mu.Lock()
Lock(g) ==
    /\ goroutines[g].pc = "Lock"
    /\ CanLock(g)
    /\ mu' = [mu EXCEPT !.writer = g]
    /\ goroutines' = [goroutines EXCEPT ![g] = [@ EXCEPT !.pc = "write"]]
    /\ UNCHANGED heap
    /\ ConcUnchanged

\* The start of a write `c.values[strings.ToUpper(k)] = v` (the one write of
\* Set, the next iteration of the merge loop of Load), or the end of the loop.
\* Two goroutines writing the map at once is a data race that the runtime
\* may stop ("concurrent map writes").
MapWriteBegin(g) ==
    /\ goroutines[g].pc = "write"
    /\ IF goroutines[g].pending = EmptyMap
       THEN goroutines' = [goroutines EXCEPT ![g] = [@ EXCEPT !.pc = "Unlock"]]
       ELSE \E k \in DOMAIN goroutines[g].pending,
               f \in IF WritingBeside(g) = {} THEN {FALSE} ELSE BOOLEAN :
               goroutines' = [goroutines EXCEPT ![g] =
                                 [@ EXCEPT !.pc = "writing", !.cur = k, !.fatal = f]]
    /\ UNCHANGED <<heap, mu>>
    /\ ConcUnchanged

\* The end of the write: the map holds the value.
MapWriteEnd(g) ==
    /\ goroutines[g].pc = "writing"
    /\ heap' = [heap EXCEPT ![globalConfig] =
                   Put(@, ToUpper(goroutines[g].cur), goroutines[g].pending[goroutines[g].cur])]
    /\ goroutines' = [goroutines EXCEPT ![g] =
                         [@ EXCEPT !.pc = "write", !.pending = Remove(@, goroutines[g].cur)]]
    /\ UNCHANGED mu
    /\ ConcUnchanged

\* c.mu.Unlock() and the return of Set; in Load the next provider, in
\* applyFallbacks the call that follows.
Unlock(g) ==
    /\ goroutines[g].pc = "Unlock"
    /\ mu' = [mu EXCEPT !.writer = ""]
    /\ goroutines' = [goroutines EXCEPT ![g] =
                         IF @.call = "Load" /\ @.fb = 0
                         THEN [@ EXCEPT !.pc = "provider", !.i = @ + 1]
                         ELSE IF @.call = "Load" THEN AfterFallbackCall(@, EmptyStr)
                         ELSE [@ EXCEPT !.pc = "return"]]
    /\ UNCHANGED heap
    /\ ConcUnchanged

(***************************************************************************)
(* Package runx: the az command line as an external process.  A run is     *)
(* what exec.Cmd gives back: the error of Run/Output (nil after exit       *)
(* status 0) and what the process wrote to stdout.  An error is            *)
(* [nil, msg, cause], cause being <<e>> when the error wraps e.            *)
(***************************************************************************)
NilError == [nil |-> TRUE, msg |-> EmptyStr, cause |-> <<>>]
ExitError ==
    [nil |-> FALSE, msg |-> <<"e", "x", "i", "t", " ", "s", "t", "a", "t", "u", "s", " ", "1">>,
     cause |-> <<>>]
ErrAzNotFound ==
    [nil |-> FALSE, msg |-> <<"e", "x", "e", "c", ":", " ", "\"", "a", "z", "\"", ":", " ", "e", "x", "e", "c", "u", "t", "a", "b", "l", "e", " ", "f", "i", "l", "e", " ", "n", "o", "t", " ", "f", "o", "u", "n", "d", " ", "i", "n", " ", "$", "P", "A", "T", "H">>,
     cause |-> <<>>]
MsgAzFailed == <<"a", "z", " ", "c", "o", "m", "m", "a", "n", "d", " ", "f", "a", "i", "l", "e", "d", ":", " ">>
MsgNilVerb == <<"%", "!", "w", "(", "<", "n", "i", "l", ">", ")">>

\* fmt.Errorf(format + "%w", err): a new error, also when err is nil
Errorf(prefix, err) ==
    [nil |-> FALSE,
     msg |-> prefix \o (IF err.nil THEN MsgNilVerb ELSE err.msg),
     cause |-> IF err.nil THEN <<>> ELSE <<err>>]

\* errors.Unwrap
Unwrap(err) == IF err.cause = <<>> THEN NilError ELSE err.cause[1]

\* An AZ that wraps whatever cmd.Run returned.
AZWrapAlways(run) == Errorf(MsgAzFailed, run.err)

\* runx.AZ: the error it returns
AZ(run) == IF ~run.err.nil THEN Errorf(MsgAzFailed, run.err) ELSE NilError

\* An AZOutput that passes the error of cmd.Output on as it is.
AZOutputUnwrapped(run) ==
    IF ~run.err.nil THEN [out |-> EmptyStr, err |-> run.err]
    ELSE [out |-> run.stdout, err |-> NilError]

\* runx.AZOutput: the string and the error it returns
AZOutput(run) ==
    IF ~run.err.nil THEN [out |-> EmptyStr, err |-> Errorf(MsgAzFailed, run.err)]
    ELSE [out |-> run.stdout, err |-> NilError]

\* runx.AZ(ctx, args...)
AZCall(args, run) ==
    /\ ret' = [op |-> "AZ", args |-> args, run |-> run, err |-> AZ(run)]
    /\ UNCHANGED <<mu, goroutines, environ, envFile, remote, heap, globalConfig, onceDone,
                   loadCount, loadTrace, initResults, setLog, returned, mutations>>

\* runx.AZOutput(ctx, args...)
AZOutputCall(args, run) ==
    /\ \E r \in {AZOutput(run)} :
          ret' = [op |-> "AZOutput", args |-> args, run |-> run, out |-> r.out, err |-> r.err]
    /\ UNCHANGED <<mu, goroutines, environ, envFile, remote, heap, globalConfig, onceDone,
                   loadCount, loadTrace, initResults, setLog, returned, mutations>>

(***************************************************************************)
(* Package templatex: RenderEnv.  A template is parsed into text nodes and *)
(* actions; the actions known here are {{ env "KEY" }} and a field of the  *)
(* data, {{ .NAME }}.                                                      *)
(***************************************************************************)
OpenDelim == <<"{", "{">>
CloseDelim == <<"}", "}">>
Quote == "\""
EnvWord == <<"e", "n", "v">>
MsgMissingEnv == <<"m", "i", "s", "s", "i", "n", "g", " ", "e", "n", "v", ":", " ">>
MsgCallingEnv == <<"e", "r", "r", "o", "r", " ", "c", "a", "l", "l", "i", "n", "g", " ", "e", "n", "v", ":", " ">>
ErrTemplateParse == [nil |-> FALSE, msg |-> <<"t", "e", "m", "p", "l", "a", "t", "e", ":", " ", "p", "a", "r", "s", "e", " ", "e", "r", "r", "o", "r">>, cause |-> <<>>]
ErrNoEntry == [nil |-> FALSE, msg |-> <<"m", "a", "p", " ", "h", "a", "s", " ", "n", "o", " ", "e", "n", "t", "r", "y", " ", "f", "o", "r", " ", "k", "e", "y">>, cause |-> <<>>]

\* strings.Index, counted from 1; 0 when sub does not occur
IndexOf(s, sub) ==
    IF \E i \in 1..(Len(s) - Len(sub) + 1) : SubSeq(s, i, i + Len(sub) - 1) = sub
    THEN CHOOSE i \in 1..(Len(s) - Len(sub) + 1) :
            /\ SubSeq(s, i, i + Len(sub) - 1) = sub
            /\ \A h \in 1..(i - 1) : SubSeq(s, h, h + Len(sub) - 1) # sub
    ELSE 0

TextNode(text) == [kind |-> "text", text |-> text]
EnvNode(key) == [kind |-> "env", text |-> key]
FieldNode(name) == [kind |-> "field", text |-> name]
ParseFailed == [ok |-> FALSE, nodes |-> <<>>]

\* The parse of what stands between the delimiters.
ParseAction(inner) ==
    IF Len(inner) > 4 /\ HasPrefix(inner, EnvWord) /\ IsSpace(inner[4])
    THEN \E x \in {TrimSpace(SubSeq(inner, 5, Len(inner)))} :
            /\ Len(x) >= 2
            /\ x[1] = Quote
            /\ x[Len(x)] = Quote
            /\ \A i \in 2..(Len(x) - 1) : x[i] # Quote
    ELSE Len(inner) > 1 /\ inner[1] = "."

ActionNode(inner) ==
    IF HasPrefix(inner, EnvWord)
    THEN Bind(TrimSpace(SubSeq(inner, 5, Len(inner))), LAMBDA x : EnvNode(SubSeq(x, 2, Len(x) - 1)))
    ELSE FieldNode(SubSeq(inner, 2, Len(inner)))

RECURSIVE ParseTemplate(_)
\* template.Parse: [ok, nodes]
ParseTemplate(s) ==
    Bind(IndexOf(s, OpenDelim), LAMBDA i :
        IF i = 0 THEN [ok |-> TRUE, nodes |-> IF s = EmptyStr THEN <<>> ELSE <<TextNode(s)>>]
        ELSE Bind(SubSeq(s, i + 2, Len(s)), LAMBDA rest :
             Bind(IndexOf(rest, CloseDelim), LAMBDA j :
                 IF j = 0 THEN ParseFailed
                 ELSE Bind(TrimSpace(SubSeq(rest, 1, j - 1)), LAMBDA inner :
                      IF ~ParseAction(inner) THEN ParseFailed
                      ELSE Bind(ParseTemplate(SubSeq(rest, j + 2, Len(rest))), LAMBDA tail :
                           IF ~tail.ok THEN ParseFailed
                           ELSE [ok |-> TRUE,
                                 nodes |-> (IF i = 1 THEN <<>>
                                            ELSE <<TextNode(SubSeq(s, 1, i - 1))>>)
                                           \o <<ActionNode(inner)>> \o tail.nodes])))))

\* An env function that gives "" for a key without a value.
envEmptyForMissing(values, key) == [val |-> Get(values, key), err |-> NilError]

\* The template function "env" that RenderEnv registers
envFunc(values, key) ==
    IF Get(values, key) = EmptyStr
    THEN [val |-> EmptyStr,
          err |-> [nil |-> FALSE, msg |-> MsgMissingEnv \o key, cause |-> <<>>]]
    ELSE [val |-> Get(values, key), err |-> NilError]

RECURSIVE Execute(_, _, _, _)
\* t.Execute(&buf, map[string]string{}): the buffer and the error when it
\* returns; what was written before an error stays in the buffer.
Execute(nodes, i, buf, values) ==
    IF i > Len(nodes) THEN [buf |-> buf, err |-> NilError]
    ELSE IF nodes[i].kind = "text" THEN Execute(nodes, i + 1, buf \o nodes[i].text, values)
    ELSE IF nodes[i].kind = "field" THEN [buf |-> buf, err |-> ErrNoEntry]
    ELSE Bind(envFunc(values, nodes[i].text), LAMBDA r :
             IF ~r.err.nil THEN [buf |-> buf, err |-> Errorf(MsgCallingEnv, r.err)]
             ELSE Execute(nodes, i + 1, buf \o r.val, values))

\* templatex.RenderEnv(input, cfg): [out, err]
RenderEnv(input, values) ==
    Bind(ParseTemplate(input), LAMBDA t :
        IF ~t.ok THEN [out |-> EmptyStr, err |-> ErrTemplateParse]
        ELSE Bind(Execute(t.nodes, 1, EmptyStr, values), LAMBDA e :
                 IF ~e.err.nil THEN [out |-> EmptyStr, err |-> e.err]
                 ELSE [out |-> e.buf, err |-> NilError]))

\* templatex.RenderEnv(input, config.Current())
RenderEnvCall(input) ==
    /\ globalConfig # 0
    /\ \E r \in {RenderEnv(input, heap[globalConfig])} :
          ret' = [op |-> "RenderEnv", input |-> input, out |-> r.out, err |-> r.err,
                  before |-> heap[globalConfig]]
    /\ UNCHANGED <<mu, goroutines, environ, envFile, remote, heap, globalConfig, onceDone,
                   loadCount, loadTrace, initResults, setLog, returned, mutations>>

(***************************************************************************)
(* The world outside the process, as one run of a command meets it: the    *)
(* az invocations that exit with status 1, the file operations that fail   *)
(* and the text of the template files.  An az invocation is named by its   *)
(* leading words, a file by its path.                                      *)
(***************************************************************************)
AzShareShow == <<"storage", "share", "show">>
AzShareCreate == <<"storage", "share", "create">>
AzFileUpload == <<"storage", "file", "upload">>
AzContainerShow == <<"container", "show">>
AzContainerDelete == <<"container", "delete">>
AzContainerCreate == <<"container", "create">>
AzWebAppShow == <<"webapp", "show">>
AzWebAppCreate == <<"webapp", "create">>
AzWebAppContainerSet == <<"webapp", "config", "container", "set">>
AzWebAppSettingsSet == <<"webapp", "config", "appsettings", "set">>

FsReadTemplate == "read template"
FsReadFluent == "read deploy/configs/fluent-bit.conf"
FsMkdirFluent == "mkdir fluent-bit/etc"
FsWriteFluent == "write fluent-bit/etc/<image>.conf"
FsMkdirDryRun == "mkdir .azctl"
FsWriteDryRun == "write .azctl/aci-dry-run.json"
FsCreateTemp == "create temp"
FsWriteTemp == "write temp"

ErrIO == [nil |-> FALSE, msg |-> <<"i/o error">>, cause |-> <<>>]

\* What exec.Cmd gives back for the az invocation c in the world w
RunOf(w, c) ==
    [err |-> IF c \in w.azFail THEN ExitError ELSE NilError, stdout |-> EmptyStr]

(***************************************************************************)
(* Package logging: the Manager and its providers.  A provider is its      *)
(* name; IsEnabled and GenerateConfig are those of the named type.         *)
(***************************************************************************)
K_LOGFLARE_API_KEY == <<"L", "O", "G", "F", "L", "A", "R", "E", "_", "A", "P", "I", "_", "K", "E", "Y">>
K_LOGFLARE_SOURCE_ID == <<"L", "O", "G", "F", "L", "A", "R", "E", "_", "S", "O", "U", "R", "C", "E", "_", "I", "D">>
K_MOCK_ENABLED == <<"M", "O", "C", "K", "_", "E", "N", "A", "B", "L", "E", "D">>
K_FLUENTBIT_CONFIG == <<"F", "L", "U", "E", "N", "T", "B", "I", "T", "_", "C", "O", "N", "F", "I", "G">>
K_DATADOG_API_KEY == <<"D", "A", "T", "A", "D", "O", "G", "_", "A", "P", "I", "_", "K", "E", "Y">>
K_DATADOG_SITE == <<"D", "A", "T", "A", "D", "O", "G", "_", "S", "I", "T", "E">>
T_Fluent == <<"k", "=", "{", "{", " ", "e", "n", "v", " ", "\"", "L", "O", "G", "F", "L", "A", "R", "E", "_", "A", "P", "I", "_", "K", "E", "Y", "\"", " ", "}", "}", " ", "e", "=", "{", "{", " ", "e", "n", "v", " ", "\"", "E", "N", "V", "_", "N", "A", "M", "E", "\"", " ", "}", "}">>
T_FluentPlain == <<"[", "S", "E", "R", "V", "I", "C", "E", "]">>
MockConfig == <<"[", "O", "U", "T", "P", "U", "T", "]">>
LogflareProvider == "Logflare"
DatadogProvider == "Datadog"
MockProvider == "Mock"

FluentDir == <<"fluent-bit/etc/">>
ConfSuffix == <<".conf">>

\* provider.IsEnabled(cfg)
IsEnabled(p, values) ==
    IF p = LogflareProvider
    THEN Get(values, K_LOGFLARE_API_KEY) # EmptyStr /\ Get(values, K_LOGFLARE_SOURCE_ID) # EmptyStr
    ELSE IF p = DatadogProvider
    THEN Get(values, K_DATADOG_API_KEY) # EmptyStr /\ Get(values, K_DATADOG_SITE) # EmptyStr
    ELSE Get(values, K_MOCK_ENABLED) = envTrue

\* provider.GenerateConfig(cfg, imageName, envName): [content, err].  The
\* mock of the tests returns a fixed text; the others read and render
\* their template.
ProviderGenerateConfig(p, values, w) ==
    IF p = MockProvider THEN [content |-> MockConfig, err |-> NilError]
    ELSE IF FsReadFluent \in w.fsFail
    THEN [content |-> EmptyStr, err |-> Errorf(<<"failed to read Fluent-bit template: ">>, ErrIO)]
    ELSE Bind(RenderEnv(w.fluent, values), LAMBDA r :
             IF ~r.err.nil
             THEN [content |-> EmptyStr,
                   err |-> Errorf(<<"failed to render Fluent-bit template: ">>, r.err)]
             ELSE [content |-> r.out, err |-> NilError])

\* createFileShareIfNotExists: [calls, err]
createFileShareIfNotExists(w) ==
    IF AZOutput(RunOf(w, AzShareShow)).err.nil
    THEN [calls |-> <<AzShareShow>>, err |-> NilError]
    ELSE Bind(AZ(RunOf(w, AzShareCreate)), LAMBDA e :
             [calls |-> <<AzShareShow, AzShareCreate>>,
              err |-> IF e.nil THEN NilError
                      ELSE Errorf(<<"failed to create file share: ">>, e)])

\* uploadToAzureFileStorage: [calls, err]
uploadToAzureFileStorage(values, w) ==
    IF \/ Get(values, K_LOG_STORAGE_ACCOUNT) = EmptyStr
       \/ Get(values, K_LOG_STORAGE_KEY) = EmptyStr
       \/ Get(values, K_FLUENTBIT_CONFIG) = EmptyStr
    THEN [calls |-> <<>>, err |-> NilError]
    ELSE Bind(createFileShareIfNotExists(w), LAMBDA s :
        IF ~s.err.nil
        THEN [calls |-> s.calls, err |-> Errorf(<<"failed to create file share: ">>, s.err)]
        ELSE Bind(AZ(RunOf(w, AzFileUpload)), LAMBDA e :
                 [calls |-> Append(s.calls, AzFileUpload),
                  err |-> IF e.nil THEN NilError
                          ELSE Errorf(<<"failed to upload file to Azure File Storage: ">>, e)]))

\* writeConfigFile: [files, calls, err]; files are the files it wrote
writeConfigFile(content, imageName, values, w) ==
    IF FsMkdirFluent \in w.fsFail
    THEN [files |-> {}, calls |-> <<>>,
          err |-> Errorf(<<"failed to create fluent-bit config directory: ">>, ErrIO)]
    ELSE IF FsWriteFluent \in w.fsFail
    THEN [files |-> {}, calls |-> <<>>,
          err |-> Errorf(<<"failed to write Fluent-bit config: ">>, ErrIO)]
    ELSE Bind(uploadToAzureFileStorage(values, w), LAMBDA u :
             [files |-> {[path |-> FluentDir \o imageName \o ConfSuffix, content |-> content]},
              calls |-> u.calls,
              err |-> IF u.err.nil THEN NilError
                      ELSE Errorf(<<"failed to upload config to Azure File Storage: ">>, u.err)])

NoLogging == [generated |-> <<>>, files |-> {}, calls |-> <<>>, err |-> NilError]

RECURSIVE GenerateConfigEveryEnabled(_, _, _, _, _)
\* A GenerateConfig that goes on to the providers after the first enabled one.
GenerateConfigEveryEnabled(providers, i, values, imageName, w) ==
    IF i > Len(providers) THEN NoLogging
    ELSE IF ~IsEnabled(providers[i], values)
    THEN GenerateConfigEveryEnabled(providers, i + 1, values, imageName, w)
    ELSE Bind(ProviderGenerateConfig(providers[i], values, w), LAMBDA g :
         Bind(IF g.err.nil THEN writeConfigFile(g.content, imageName, values, w)
              ELSE [files |-> {}, calls |-> <<>>, err |-> g.err], LAMBDA f :
         Bind(GenerateConfigEveryEnabled(providers, i + 1, values, imageName, w), LAMBDA rest :
             [generated |-> <<providers[i]>> \o rest.generated,
              files |-> f.files \cup rest.files,
              calls |-> f.calls \o rest.calls,
              err |-> IF ~f.err.nil THEN f.err ELSE rest.err])))

RECURSIVE GenerateConfig(_, _, _, _, _)
\* Manager.GenerateConfig from provider i on: the providers whose
\* GenerateConfig ran, the files written, the az invocations and the error
GenerateConfig(providers, i, values, imageName, w) ==
    IF i > Len(providers) THEN NoLogging
    ELSE IF ~IsEnabled(providers[i], values)
    THEN GenerateConfig(providers, i + 1, values, imageName, w)
    ELSE Bind(ProviderGenerateConfig(providers[i], values, w), LAMBDA g :
             IF ~g.err.nil
             THEN [generated |-> <<providers[i]>>, files |-> {}, calls |-> <<>>,
                   err |-> Errorf(<<"failed to generate ", providers[i], " config: ">>, g.err)]
             ELSE Bind(writeConfigFile(g.content, imageName, values, w), LAMBDA f :
                      [generated |-> <<providers[i]>>, files |-> f.files, calls |-> f.calls,
                       err |-> IF f.err.nil THEN NilError
                               ELSE Errorf(<<"failed to write ", providers[i], " config: ">>, f.err)]))

\* logging.NewManager()
NewManager == <<LogflareProvider>>

\* m := logging.NewManager()
NewManagerCall ==
    /\ globalConfig # 0
    /\ ret' = [op |-> "NewManager", providers |-> NewManager]
    /\ UNCHANGED <<mu, goroutines, environ, envFile, remote, heap, globalConfig, onceDone,
                   loadCount, loadTrace, initResults, setLog, returned, mutations>>

\* m.RegisterProvider(provider)
RegisterProviderCall(provider) ==
    /\ ret.op \in {"NewManager", "RegisterProvider"}
    /\ Len(ret.providers) < MaxProviders
    /\ ret' = [op |-> "RegisterProvider", providers |-> Append(ret.providers, provider)]
    /\ UNCHANGED <<mu, goroutines, environ, envFile, remote, heap, globalConfig, onceDone,
                   loadCount, loadTrace, initResults, setLog, returned, mutations>>

\* m.GenerateConfig(config.Current(), imageName, envName)
GenerateConfigCall(imageName, w) ==
    /\ ret.op \in {"NewManager", "RegisterProvider"}
    /\ \E r \in {GenerateConfig(ret.providers, 1, heap[globalConfig], imageName, w)} :
          ret' = [op |-> "GenerateConfig", providers |-> ret.providers, world |-> w,
                  before |-> heap[globalConfig], imageName |-> imageName,
                  generated |-> r.generated, files |-> r.files, calls |-> r.calls,
                  err |-> r.err]
    /\ UNCHANGED <<mu, goroutines, environ, envFile, remote, heap, globalConfig, onceDone,
                   loadCount, loadTrace, initResults, setLog, returned, mutations>>

(***************************************************************************)
(* The aci and webapp commands after their validation.  What a run did     *)
(* outside the process is a sequence of operations, the az invocations     *)
(* and the operations on the temporary file in the order they were         *)
(* issued, and the set of files it wrote and left.                         *)
(***************************************************************************)
T_Aci == <<"{", "\"", "i", "m", "a", "g", "e", "\"", ":", "\"", "{", "{", " ", "e", "n", "v", " ", "\"", "I", "M", "A", "G", "E", "_", "N", "A", "M", "E", "\"", " ", "}", "}", "\"", "}">>
LogflarePrefix == <<"L", "O", "G", "F", "L", "A", "R", "E", "_">>
K_LOG_STORAGE_NAME == <<"L", "O", "G", "_", "S", "T", "O", "R", "A", "G", "E", "_", "N", "A", "M", "E">>
K_PORT == <<"P", "O", "R", "T">>
K_NODE_ENV == <<"N", "O", "D", "E", "_", "E", "N", "V">>

FsRemoveTemp == "remove temp"
OsCreateTemp == <<"os", "CreateTemp">>
OsRemoveTemp == <<"os", "Remove">>
DryRunPath == <<".azctl/aci-dry-run.json">>
TempPath == <<"aci-*.json">>

\* checkContainerGroupExists: a failing `az container show` is "does not
\* exist", never an error
checkContainerGroupExists(w) ==
    [exists |-> AZOutput(RunOf(w, AzContainerShow)).err.nil, err |-> NilError]

\* deleteContainerGroup
deleteContainerGroup(w) ==
    Bind(AZ(RunOf(w, AzContainerDelete)), LAMBDA e :
        IF e.nil THEN NilError ELSE Errorf(<<"failed to delete container group: ">>, e))

\* createContainerGroup: [ops, files, err].  The deferred os.Remove runs on
\* every return after CreateTemp succeeded; the file stays when it fails.
createContainerGroup(rendered, w) ==
    IF FsCreateTemp \in w.fsFail
    THEN [ops |-> <<OsCreateTemp>>, files |-> {},
          err |-> Errorf(<<"failed to create temp file: ">>, ErrIO)]
    ELSE Bind(IF FsRemoveTemp \in w.fsFail
              THEN {[path |-> TempPath,
                     content |-> IF FsWriteTemp \in w.fsFail THEN EmptyStr ELSE rendered]}
              ELSE {}, LAMBDA left :
        IF FsWriteTemp \in w.fsFail
        THEN [ops |-> <<OsCreateTemp, OsRemoveTemp>>, files |-> left,
              err |-> Errorf(<<"failed to write to temp file: ">>, ErrIO)]
        ELSE Bind(AZ(RunOf(w, AzContainerCreate)), LAMBDA e :
                 [ops |-> <<OsCreateTemp, AzContainerCreate, OsRemoveTemp>>, files |-> left,
                  err |-> IF e.nil THEN NilError
                          ELSE Errorf(<<"failed to create container group: ">>, e)]))

\* A deployACI that goes on to create after a failed delete.
deployACICreateAfterFailedDelete(values, envName, rendered, w) ==
    Bind(IF envName \in {envDev, envDevelopment, envStaging}
         THEN IF checkContainerGroupExists(w).exists
              THEN <<AzContainerShow, AzContainerDelete>>
              ELSE <<AzContainerShow>>
         ELSE <<>>, LAMBDA pre :
    Bind(createContainerGroup(rendered, w), LAMBDA c :
        [ops |-> pre \o c.ops, files |-> c.files, err |-> c.err]))

\* deployACI: [ops, files, err]
deployACI(values, envName, rendered, w) ==
    Bind(IF envName \in {envDev, envDevelopment, envStaging}
         THEN IF checkContainerGroupExists(w).exists
              THEN Bind(deleteContainerGroup(w), LAMBDA e :
                       [ops |-> <<AzContainerShow, AzContainerDelete>>,
                        err |-> IF e.nil THEN NilError
                                ELSE Errorf(<<"failed to delete existing container group: ">>, e)])
              ELSE [ops |-> <<AzContainerShow>>, err |-> NilError]
         ELSE [ops |-> <<>>, err |-> NilError], LAMBDA pre :
        IF ~pre.err.nil THEN [ops |-> pre.ops, files |-> {}, err |-> pre.err]
        ELSE Bind(createContainerGroup(rendered, w), LAMBDA c :
                 [ops |-> pre.ops \o c.ops, files |-> c.files, err |-> c.err]))

\* The dry-run branch of the aci command: [ops, files, err]
aciDryRun(rendered, w) ==
    IF FsMkdirDryRun \in w.fsFail
    THEN [ops |-> <<>>, files |-> {},
          err |-> Errorf(<<"failed to create .azctl directory: ">>, ErrIO)]
    ELSE IF FsWriteDryRun \in w.fsFail
    THEN [ops |-> <<>>, files |-> {},
          err |-> Errorf(<<"failed to write dry-run output: ">>, ErrIO)]
    ELSE [ops |-> <<>>, files |-> {[path |-> DryRunPath, content |-> rendered]},
          err |-> NilError]

\* An end of the aci command whose dry-run branch does not return.
aciFinishDeployingToo(values, envName, rendered, dryRun, w) ==
    Bind(IF dryRun THEN aciDryRun(rendered, w)
         ELSE [ops |-> <<>>, files |-> {}, err |-> NilError], LAMBDA dry :
        IF ~dry.err.nil THEN dry
        ELSE Bind(deployACI(values, envName, rendered, w), LAMBDA dep :
                 [ops |-> dep.ops, files |-> dry.files \cup dep.files,
                  err |-> IF dep.err.nil THEN NilError
                          ELSE Errorf(<<"ACI deployment failed: ">>, dep.err)]))

\* The end of the aci command, from `if dryRun` on: [ops, files, err]
aciFinish(values, envName, rendered, dryRun, w) ==
    IF dryRun THEN aciDryRun(rendered, w)
    ELSE Bind(deployACI(values, envName, rendered, w), LAMBDA dep :
             [ops |-> dep.ops, files |-> dep.files,
              err |-> IF dep.err.nil THEN NilError
                      ELSE Errorf(<<"ACI deployment failed: ">>, dep.err)])

NothingDone == [rendered |-> EmptyStr, generated |-> <<>>, ops |-> <<>>, files |-> {}]

\* newACICmd RunE after the validation, r being what aciRun gives:
\* [rendered, generated, ops, files, err].  Whether the rendered text is
\* JSON is the answer of encoding/json, w.jsonOk.
aciDeploy(r, dryRun, w) ==
    IF r.stage = StageTemplateNotFound
    THEN NothingDone @@ [err |-> [nil |-> FALSE, msg |-> <<"template not found">>, cause |-> <<>>]]
    ELSE IF r.stage # StageValidated
    THEN NothingDone @@ [err |-> Errorf(<<"ACI deployment validation failed: ">>,
                                        [nil |-> FALSE, msg |-> <<"missing">>, cause |-> <<>>])]
    ELSE IF FsReadTemplate \in w.fsFail
    THEN NothingDone @@ [err |-> Errorf(<<"failed to read template file: ">>, ErrIO)]
    ELSE Bind(RenderEnv(w.template, r.values), LAMBDA t :
        IF ~t.err.nil
        THEN NothingDone @@ [err |-> Errorf(<<"failed to render template: ">>, t.err)]
        ELSE IF ~w.jsonOk
        THEN [NothingDone EXCEPT !.rendered = t.out]
             @@ [err |-> Errorf(<<"rendered JSON invalid: ">>, ErrIO)]
        ELSE Bind(GenerateConfig(NewManager, 1, r.values, Get(r.values, K_IMAGE_NAME), w),
                  LAMBDA g :
            IF ~g.err.nil
            THEN [rendered |-> t.out, generated |-> g.generated, ops |-> g.calls,
                  files |-> g.files,
                  err |-> Errorf(<<"failed to generate logging config: ">>, g.err)]
            ELSE Bind(aciFinish(r.values, r.envName, t.out, dryRun, w), LAMBDA f :
                     [rendered |-> t.out, generated |-> g.generated,
                      ops |-> g.calls \o f.ops, files |-> g.files \cup f.files,
                      err |-> f.err])))

\* azctl aci [--resource-group rg] [--dry-run]
RunACI(resourceGroupFlag, statTemplate, statFallback, dryRun, w) ==
    /\ Initialised
    /\ \E r \in {aciRun(heap[globalConfig], ret.env, resourceGroupFlag,
                        statTemplate, statFallback)} :
         \E a \in {aciDeploy(r, dryRun, w)} :
           /\ heap' = [heap EXCEPT ![globalConfig] = r.values]
           /\ ret' = [op |-> "aci", stage |-> r.stage, missing |-> r.missing,
                      resourceGroup |-> r.resourceGroup, envName |-> r.envName,
                      flags |-> (K_RESOURCE_GROUP :> resourceGroupFlag),
                      dryRun |-> dryRun, world |-> w, preRun |-> ret, values |-> r.values,
                      rendered |-> a.rendered, generated |-> a.generated,
                      ops |-> a.ops, files |-> a.files, err |-> a.err]
    /\ UNCHANGED <<mu, goroutines, environ, envFile, remote, globalConfig, onceDone, loadCount,
                   loadTrace, initResults, setLog, returned, mutations>>

\* isInternalVariable, over the keys of the model
isInternalVariable(key) ==
    key \in {K_ACR_REGISTRY, K_ACR_RESOURCE_GROUP, K_ACR_USERNAME, K_ACR_PASSWORD,
             K_RESOURCE_GROUP, K_IMAGE_NAME, K_IMAGE_TAG, K_WEBAPP_NAME, K_APP_SERVICE_PLAN,
             K_LOG_STORAGE_ACCOUNT, K_LOG_STORAGE_KEY, K_LOG_STORAGE_NAME, K_FLUENTBIT_CONFIG,
             K_APP_CONFIG_NAME, K_APP_CONFIG_LABEL, K_APP_CONFIG_SKIP}

\* isApplicationVariable, with the prefixes that keys of the model carry
isApplicationVariable(key) ==
    \/ HasPrefix(key, NextPublicPrefix)
    \/ HasPrefix(key, LogflarePrefix)
    \/ key \in {K_PORT, K_NODE_ENV, K_ENVIRONMENT}

BatchSize == 20

\* setWebAppSettings: one invocation for each batch of settings, up to the
\* first that fails
setWebAppSettings(values, w) ==
    Bind(Cardinality({k \in DOMAIN values :
                         ~isInternalVariable(k) /\ isApplicationVariable(k)}), LAMBDA n :
        IF n = 0 THEN [ops |-> <<>>, err |-> NilError]
        ELSE IF AzWebAppSettingsSet \in w.azFail
        THEN [ops |-> <<AzWebAppSettingsSet>>,
              err |-> Errorf(<<"failed to set application settings batch: ">>,
                             AZ(RunOf(w, AzWebAppSettingsSet)))]
        ELSE [ops |-> [i \in 1..((n + BatchSize - 1) \div BatchSize) |-> AzWebAppSettingsSet],
              err |-> NilError])

\* updateWebApp: [ops, err]
updateWebApp(values, w) ==
    IF \/ Get(values, K_ACR_REGISTRY) = EmptyStr
       \/ Get(values, K_IMAGE_NAME) = EmptyStr
       \/ Get(values, K_IMAGE_TAG) = EmptyStr
    THEN [ops |-> <<>>,
          err |-> [nil |-> FALSE, msg |-> <<"missing required variables">>, cause |-> <<>>]]
    ELSE Bind(AZ(RunOf(w, AzWebAppContainerSet)), LAMBDA e :
        IF ~e.nil
        THEN [ops |-> <<AzWebAppContainerSet>>,
              err |-> Errorf(<<"failed to update webapp container: ">>, e)]
        ELSE Bind(setWebAppSettings(values, w), LAMBDA s :
                 [ops |-> <<AzWebAppContainerSet>> \o s.ops,
                  err |-> IF s.err.nil THEN NilError
                          ELSE Errorf(<<"failed to set webapp settings: ">>, s.err)]))

\* checkWebAppExists
checkWebAppExists(w) == AZ(RunOf(w, AzWebAppShow)).nil

\* createWebApp
createWebApp(w) ==
    Bind(AZ(RunOf(w, AzWebAppCreate)), LAMBDA e :
        IF e.nil THEN NilError ELSE Errorf(<<"failed to create webapp: ">>, e))

\* A deployment that creates without asking for a plan and updates
\* whatever createWebApp returned.
webappDeployIgnoringCreate(r, w) ==
    IF r.stage # StageValidated
    THEN [steps |-> <<>>, ops |-> <<>>,
          err |-> [nil |-> FALSE, msg |-> <<r.stage>>, cause |-> <<>>]]
    ELSE IF checkWebAppExists(w)
    THEN Bind(updateWebApp(r.values, w), LAMBDA u :
             [steps |-> <<"checkWebAppExists", "updateWebApp">>,
              ops |-> <<AzWebAppShow>> \o u.ops, err |-> u.err])
    ELSE Bind(updateWebApp(r.values, w), LAMBDA u :
             [steps |-> <<"checkWebAppExists", "createWebApp", "updateWebApp">>,
              ops |-> <<AzWebAppShow, AzWebAppCreate>> \o u.ops, err |-> u.err])

\* newWebAppCmd RunE after the validation: the functions it called, the az
\* invocations and the error
webappDeploy(r, w) ==
    IF r.stage # StageValidated
    THEN [steps |-> <<>>, ops |-> <<>>,
          err |-> [nil |-> FALSE, msg |-> <<r.stage>>, cause |-> <<>>]]
    ELSE IF checkWebAppExists(w)
    THEN Bind(updateWebApp(r.values, w), LAMBDA u :
             [steps |-> <<"checkWebAppExists", "updateWebApp">>,
              ops |-> <<AzWebAppShow>> \o u.ops, err |-> u.err])
    ELSE IF r.appServicePlan = EmptyStr
    THEN [steps |-> <<"checkWebAppExists">>, ops |-> <<AzWebAppShow>>,
          err |-> [nil |-> FALSE, msg |-> <<"WebApp does not exist and APP_SERVICE_PLAN not provided">>,
                   cause |-> <<>>]]
    ELSE Bind(createWebApp(w), LAMBDA c :
        IF ~c.nil
        THEN [steps |-> <<"checkWebAppExists", "createWebApp">>,
              ops |-> <<AzWebAppShow, AzWebAppCreate>>,
              err |-> Errorf(<<"failed to create WebApp: ">>, c)]
        ELSE Bind(updateWebApp(r.values, w), LAMBDA u :
                 [steps |-> <<"checkWebAppExists", "createWebApp", "updateWebApp">>,
                  ops |-> <<AzWebAppShow, AzWebAppCreate>> \o u.ops, err |-> u.err]))

\* azctl webapp [--resource-group rg] [--name n] [--plan p]
RunWebApp(resourceGroupFlag, nameFlag, planFlag, w) ==
    /\ Initialised
    /\ \E r \in {webappRun(heap[globalConfig], ret.env, resourceGroupFlag,
                           nameFlag, planFlag)} :
         \E a \in {webappDeploy(r, w)} :
           /\ heap' = [heap EXCEPT ![globalConfig] = r.values]
           /\ ret' = [op |-> "webapp", stage |-> r.stage, missing |-> r.missing,
                      resourceGroup |-> r.resourceGroup, envName |-> r.envName,
                      webAppName |-> r.webAppName, appServicePlan |-> r.appServicePlan,
                      flags |-> (K_RESOURCE_GROUP :> resourceGroupFlag),
                      world |-> w, steps |-> a.steps, ops |-> a.ops, err |-> a.err]
    /\ UNCHANGED <<mu, goroutines, environ, envFile, remote, globalConfig, onceDone, loadCount,
                   loadTrace, initResults, setLog, returned, mutations>>

\* detectEnvironmentFromCI() and isCIEnvironment() as a command calls them
DetectCall ==
    /\ ret' = [op |-> "detect", env |-> detectEnvironmentFromCI, ci |-> isCIEnvironment,
               environ |-> environ]
    /\ UNCHANGED <<mu, goroutines, environ, envFile, remote, heap, globalConfig, onceDone,
                   loadCount, loadTrace, initResults, setLog, returned, mutations>>

\* t.Setenv(name, value) of the tests, name not yet set
SetenvCall(name, value) ==
    /\ name \notin DOMAIN environ
    /\ environ' = Put(environ, name, value)
    /\ ret' = [op |-> "Setenv", name |-> name, value |-> value]
    /\ UNCHANGED <<mu, goroutines, envFile, remote, heap, globalConfig, onceDone,
                   loadCount, loadTrace, initResults, setLog, returned, mutations>>

\* reloadConfigWithEnvironment(ctx, envName) as the acr command calls it.
\* config.Current() panics before the first Init; after it, the Init of
\* the reload finds configOnce done.
ReloadCall(envName) ==
    /\ globalConfig # 0
    /\ Len(initResults) < MaxInits
    /\ \E r \in {reloadConfigWithEnvironment(heap[globalConfig], envName)} :
          /\ heap' = [heap EXCEPT ![globalConfig] = r.values]
          /\ environ' = r.environ
          /\ initResults' = Append(initResults, NilErr)
          /\ ret' = [op |-> "reload", env |-> envName, err |-> NilErr,
                     name |-> r.environ[K_APP_CONFIG_NAME], before |-> heap[globalConfig]]
    /\ UNCHANGED <<mu, goroutines, envFile, remote, globalConfig, onceDone, loadCount,
                   loadTrace, setLog, returned, mutations>>

(***************************************************************************)
(* Package validation: the ValidationEngine and its predefined rules.  A   *)
(* rule is [name, required, patterns, custom]; a pattern is named by what  *)
(* it accepts, a number is the fraction num/den.                           *)
(***************************************************************************)
Digits == <<"0", "1", "2", "3", "4", "5", "6", "7", "8", "9">>
IsDigit(c) == \E i \in 1..10 : Digits[i] = c
DigitValue(c) == (CHOOSE i \in 1..10 : Digits[i] = c) - 1
IsWordChar(c) == IsDigit(c) \/ c \in Range(LowerLetters) \/ c \in Range(UpperLetters)

RECURSIVE NatOf(_)
NatOf(s) == IF s = <<>> THEN 0 ELSE 10 * NatOf(SubSeq(s, 1, Len(s) - 1)) + DigitValue(s[Len(s)])

RECURSIVE Pow10(_)
Pow10(n) == IF n = 0 THEN 1 ELSE 10 * Pow10(n - 1)

\* The length of the longest prefix of s made of digits
RECURSIVE DigitRun(_)
DigitRun(s) == IF s # <<>> /\ IsDigit(s[1]) THEN 1 + DigitRun(Tail(s)) ELSE 0

\* regexp.MatchString(pattern, value) for the patterns of the rules
PatName == "^[a-zA-Z0-9_-]+$"
PatLabel == "^[a-zA-Z0-9-]+$"
PatDigits == "^\\d+$"
PatDecimal == "^\\d+(\\.\\d+)?$"
PatOS == "^(Linux|Windows)$"
D_Windows == <<"W", "i", "n", "d", "o", "w", "s">>

MatchString(pattern, value) ==
    CASE pattern = PatName ->
             value # <<>> /\ \A i \in 1..Len(value) : IsWordChar(value[i]) \/ value[i] \in {"_", "-"}
      [] pattern = PatLabel ->
             value # <<>> /\ \A i \in 1..Len(value) : IsWordChar(value[i]) \/ value[i] = "-"
      [] pattern = PatDigits -> value # <<>> /\ DigitRun(value) = Len(value)
      [] pattern = PatDecimal ->
             LET n == DigitRun(value)
             IN  /\ n > 0
                 /\ \/ n = Len(value)
                    \/ /\ n + 1 < Len(value)
                       /\ value[n + 1] = "."
                       /\ DigitRun(SubSeq(value, n + 2, Len(value))) = Len(value) - n - 1
      [] pattern = PatOS -> value \in {D_Linux, D_Windows}

\* fmt.Sscanf(s, "%f", &f) for unsigned decimal text: the number at the
\* start of s, or an error when s does not start with a digit
Sscanf(s) ==
    LET n == DigitRun(s)
        m == IF n < Len(s) /\ s[n + 1] = "." THEN DigitRun(SubSeq(s, n + 2, Len(s))) ELSE 0
    IN  IF n = 0
        THEN [num |-> 0, den |-> 1,
              err |-> [nil |-> FALSE, msg |-> <<"strconv.ParseFloat: invalid syntax">>,
                       cause |-> <<>>]]
        ELSE [num |-> NatOf(SubSeq(s, 1, n)) * Pow10(m) + NatOf(SubSeq(s, n + 2, n + 1 + m)),
              den |-> Pow10(m), err |-> NilError]

\* parseFloat: [num, den, err].  It returns fmt.Errorf("...%w", err)
\* whatever err is.
parseFloat(s) ==
    [num |-> Sscanf(s).num, den |-> Sscanf(s).den,
     err |-> Errorf(<<"failed to parse float: ">>, Sscanf(s).err)]

ErrorOf(msg) == [nil |-> FALSE, msg |-> msg, cause |-> <<>>]

\* The check ACIValidation.Custom makes of one of its two fields
aciRange(value, name, max, bounds) ==
    IF value = EmptyStr THEN NilError
    ELSE IF ~parseFloat(value).err.nil
    THEN ErrorOf(<<"invalid ", name, " value: ">> \o value)
    ELSE IF parseFloat(value).num <= 0 \/ parseFloat(value).num > max * parseFloat(value).den
    THEN ErrorOf(<<name, " must be between ", bounds>>)
    ELSE NilError

\* rule.Custom(cfg)
Custom(custom, values) ==
    IF custom = "aci"
    THEN IF ~aciRange(Get(values, K_ACI_CPU), "ACI_CPU", 4, "0.1 and 4.0").nil
         THEN aciRange(Get(values, K_ACI_CPU), "ACI_CPU", 4, "0.1 and 4.0")
         ELSE aciRange(Get(values, K_ACI_MEMORY), "ACI_MEMORY", 16, "0.1 and 16.0")
    ELSE NilError

ACIValidation ==
    [name |-> "ACI Configuration",
     required |-> <<K_RESOURCE_GROUP, K_CONTAINER_GROUP_NAME, K_LOCATION, K_OS_TYPE,
                    K_DNS_NAME_LABEL, K_ACI_PORT, K_ACI_CPU, K_ACI_MEMORY, K_ACR_REGISTRY,
                    K_IMAGE_NAME, K_IMAGE_TAG, K_ACR_USERNAME, K_ACR_PASSWORD>>,
     patterns |-> (K_RESOURCE_GROUP :> PatName) @@ (K_CONTAINER_GROUP_NAME :> PatName)
                  @@ (K_DNS_NAME_LABEL :> PatLabel) @@ (K_ACI_PORT :> PatDigits)
                  @@ (K_ACI_CPU :> PatDecimal) @@ (K_ACI_MEMORY :> PatDecimal)
                  @@ (K_OS_TYPE :> PatOS),
     custom |-> "aci"]

WebAppValidation ==
    [name |-> "WebApp Configuration",
     required |-> <<K_RESOURCE_GROUP, K_ACR_REGISTRY, K_IMAGE_NAME, K_IMAGE_TAG>>,
     patterns |-> (K_RESOURCE_GROUP :> PatName) @@ (K_WEBAPP_NAME :> PatName),
     custom |-> "none"]

\* validateRule: the errors it may return, one for each pattern that fails
\* since the patterns are a Go map, NilError alone when the rule holds
validateRule(values, rule) ==
    LET missing == {i \in 1..Len(rule.required) : ~Has(values, rule.required[i])}
        failing == {f \in DOMAIN rule.patterns :
                       /\ Get(values, f) # EmptyStr
                       /\ ~MatchString(rule.patterns[f], Get(values, f))}
    IN  IF missing # {}
        THEN {ErrorOf(<<"missing required field: ">>
                      \o rule.required[CHOOSE i \in missing : \A j \in missing : i <= j])}
        ELSE IF failing # {}
        THEN {ErrorOf(<<"field ">> \o f \o <<" does not match pattern ", rule.patterns[f]>>) :
                 f \in failing}
        ELSE {Custom(rule.custom, values)}

RECURSIVE ruleErrors(_, _, _)
\* The list `errors` that Validate collects from rule i on: the set of
\* lists it may end up with
ruleErrors(values, rules, i) ==
    IF i > Len(rules) THEN {<<>>}
    ELSE {(IF e.nil THEN <<>> ELSE <<<<rules[i].name, ": ">> \o e.msg>>) \o rest :
             e \in validateRule(values, rules[i]), rest \in ruleErrors(values, rules, i + 1)}

\* ValidationEngine.Validate(cfg) of an engine with the rules added in
\* this order: the errors it may return
EngineValidate(values, rules) ==
    {IF errors = <<>> THEN NilError
     ELSE ErrorOf(<<"validation failed:\n">> \o Join(errors, <<"\n">>)) :
        errors \in ruleErrors(values, rules, 1)}

\* e := NewEngine(); e.AddRule(...); e.Validate(config.Current())
EngineValidateCall(rules) ==
    /\ globalConfig # 0
    /\ \E e \in EngineValidate(heap[globalConfig], rules) :
          ret' = [op |-> "EngineValidate", rules |-> rules, err |-> e,
                  before |-> heap[globalConfig]]
    /\ UNCHANGED <<mu, goroutines, environ, envFile, remote, heap, globalConfig, onceDone,
                   loadCount, loadTrace, initResults, setLog, returned, mutations>>

(***************************************************************************)
(* config.Init and config.Current called from several goroutines.  A       *)
(* goroutine here is [call, pc, envfile, env, err, config, panicked,       *)
(* after].  configOnce is a sync.Once: Do reads the done flag and, when it *)
(* is not set, takes the Once's mutex, reads the flag again and runs the   *)
(* function; the flag is set when the function has returned, before the    *)
(* mutex is released.  The goroutine that holds the mutex is the one       *)
(* between "New" and "Store".                                              *)
(***************************************************************************)
IdleInit ==
    [call |-> "idle", pc |-> "idle", envfile |-> EmptyStr, env |-> EmptyStr, err |-> NilErr,
     config |-> 0, panicked |-> FALSE, after |-> FALSE]

OnceUnchanged == UNCHANGED <<environ, envFile, remote, setLog, returned, mutations, ret, mu>>

\* The goroutines inside configOnce's mutex.
InsideOnce == {h \in DOMAIN goroutines : goroutines[h].pc \in {"New", "Load", "Store"}}

\* A Once whose slow path does not take the mutex.
OnceWithoutMutex(g) == TRUE

\* o.m.Lock() of sync.Once returns when no goroutine holds the mutex.
CanLockOnce(g) == InsideOnce \ {g} = {}

\* go config.Init(ctx, envfile, env)
StartInit(g, envfile, env) ==
    /\ goroutines[g].call = "idle"
    /\ goroutines' = [goroutines EXCEPT ![g] = [@ EXCEPT !.call = "Init", !.pc = "Do",
                                                         !.envfile = envfile, !.env = env]]
    /\ UNCHANGED <<heap, globalConfig, onceDone, loadCount, loadTrace, initResults>>
    /\ OnceUnchanged

\* configOnce.Do: the read of the done flag outside the mutex
OnceDo(g) ==
    /\ goroutines[g].pc = "Do"
    /\ goroutines' = [goroutines EXCEPT ![g] =
                         [@ EXCEPT !.pc = IF onceDone THEN "initReturn" ELSE "doSlow"]]
    /\ UNCHANGED <<heap, globalConfig, onceDone, loadCount, loadTrace, initResults>>
    /\ OnceUnchanged

\* The slow path of Do: the mutex, and the second read of the done flag.
OnceDoSlow(g) ==
    /\ goroutines[g].pc = "doSlow"
    /\ CanLockOnce(g)
    /\ goroutines' = [goroutines EXCEPT ![g] =
                         [@ EXCEPT !.pc = IF onceDone THEN "initReturn" ELSE "New"]]
    /\ UNCHANGED <<heap, globalConfig, onceDone, loadCount, loadTrace, initResults>>
    /\ OnceUnchanged

\* globalConfig = New()
OnceNew(g) ==
    /\ goroutines[g].pc = "New"
    /\ heap' = Append(heap, EmptyMap)
    /\ globalConfig' = Len(heap) + 1
    /\ goroutines' = [goroutines EXCEPT ![g] = [@ EXCEPT !.pc = "Load"]]
    /\ UNCHANGED <<onceDone, loadCount, loadTrace, initResults>>
    /\ OnceUnchanged

\* initErr = globalConfig.Load(ctx, envfile, env)
OnceLoad(g) ==
    /\ goroutines[g].pc = "Load"
    /\ \E l \in Load(heap[globalConfig], goroutines[g].envfile, goroutines[g].env) :
          /\ heap' = [heap EXCEPT ![globalConfig] = l.values]
          /\ loadCount' = loadCount + 1
          /\ loadTrace' = l.trace
          /\ goroutines' = [goroutines EXCEPT ![g] = [@ EXCEPT !.pc = "Store", !.err = l.err]]
    /\ UNCHANGED <<globalConfig, onceDone, initResults>>
    /\ OnceUnchanged

\* The function has returned: the done flag is set and the mutex released.
OnceStore(g) ==
    /\ goroutines[g].pc = "Store"
    /\ onceDone' = TRUE
    /\ goroutines' = [goroutines EXCEPT ![g] = [@ EXCEPT !.pc = "initReturn"]]
    /\ UNCHANGED <<heap, globalConfig, loadCount, loadTrace, initResults>>
    /\ OnceUnchanged

\* return initErr
InitReturn(g) ==
    /\ goroutines[g].pc = "initReturn"
    /\ initResults' = Append(initResults, goroutines[g].err)
    /\ goroutines' = [goroutines EXCEPT ![g] = [@ EXCEPT !.pc = "return"]]
    /\ UNCHANGED <<heap, globalConfig, onceDone, loadCount, loadTrace>>
    /\ OnceUnchanged

\* config.Current() in a goroutine that is not inside Init; `after` tells
\* whether an Init had returned when it was called.
CurrentIn(g) ==
    /\ goroutines[g].pc \in {"idle", "return"}
    /\ goroutines[g].call # "Current"
    /\ goroutines' = [goroutines EXCEPT ![g] =
                         [@ EXCEPT !.call = "Current", !.pc = "return",
                                   !.panicked = (globalConfig = 0),
                                   !.config = globalConfig,
                                   !.after = (initResults # <<>>)]]
    /\ UNCHANGED <<heap, globalConfig, onceDone, loadCount, loadTrace, initResults>>
    /\ OnceUnchanged

(***************************************************************************)
(* Inputs.                                                                 *)
(***************************************************************************)
NoFile == [path |-> DotEnvPath, exists |-> FALSE, readable |-> FALSE, contents |-> EmptyMap]
FileOf(readable, contents) ==
    [path |-> DotEnvPath, exists |-> TRUE, readable |-> readable, contents |-> contents]

FileContentsA == (K_Foo :> V_f1) @@ (K_ACR_REGISTRY :> V_f2)
FileContentsB == (K_foo :> V_f1) @@ (K_FOO :> V_f3)

EnvFileChoices ==
    {NoFile, FileOf(FALSE, FileContentsA), FileOf(TRUE, FileContentsA), FileOf(TRUE, FileContentsB)}

EnvCandidates ==
    {<<K_CI, envTrue>>, <<K_APP_CONFIG_NAME, V_cfg>>, <<K_APP_CONFIG_SKIP, envTrue>>,
     <<K_IMAGE_NAME, V_app1>>, <<K_foo, V_e1>>, <<K_REGISTRY, V_e2>>}
EnvironChoices == {MapOf(c) : c \in SUBSET EnvCandidates}

ObjGlobalDev == (K_foo :> JString(V_r1)) @@ (K_REGISTRY :> JString(V_r2)) @@ (K_bar :> JNumber)
ObjGlobalAny == (K_FOO :> JString(V_r3)) @@ (K_ACR_REGISTRY :> JString(V_r1))
ObjEntityDev == (K_Foo :> JString(V_r3)) @@ (K_bar :> JString(V_r2))

RemoteOf(gl, gn, el, en) ==
    (<<V_cfg, GlobalKey, V_dev>> :> gl) @@ (<<V_cfg, GlobalKey, EmptyStr>> :> gn) @@
    (<<V_cfg, V_app1, V_dev>> :> el) @@ (<<V_cfg, V_app1, EmptyStr>> :> en)

RemoteChoices ==
    {RemoteOf(gl, gn, el, NotFound) :
        gl \in {NotFound, BadValue, Found(ObjGlobalDev)},
        gn \in {NotFound, Found(ObjGlobalAny)},
        el \in {NotFound, Found(ObjEntityDev)}}

EnvfileArgs == {EmptyStr, DotEnvPath}
EnvArgs == {EmptyStr, V_dev}
SetKeys == {K_foo, K_FOO, K_bar}
ReadKeys == {K_foo, K_Foo, K_BAR}
SetValues == {EmptyStr, V_v, V_w}
KeyLists ==
    {<<>>, <<K_foo>>, <<K_bar>>, <<K_BAR, K_Foo>>, <<K_bar, K_REGISTRY, K_foo>>,
     <<K_IMAGE_NAME, K_Foo, K_bar>>, <<K_IMAGE_TAG, K_bar, K_IMAGE_NAME>>}

Fresh ==
    /\ heap = <<>>
    /\ globalConfig = 0
    /\ onceDone = FALSE
    /\ loadCount = 0
    /\ loadTrace = <<>>
    /\ initResults = <<>>
    /\ setLog = <<>>
    /\ returned = {}
    /\ mutations = 0
    /\ ret = [op |-> "none"]
    /\ mu = Unlocked
    /\ goroutines = <<>>

(***************************************************************************)
(* Spec: one process using the store, started in a fixed environment.      *)
(***************************************************************************)
Init ==
    /\ environ = (K_foo :> V_e1) @@ (K_REGISTRY :> V_e2)
    /\ envFile \in {NoFile, FileOf(TRUE, FileContentsA)}
    /\ remote = RemoteOf(NotFound, NotFound, NotFound, NotFound)
    /\ Fresh

Next ==
    \/ \E ef \in EnvfileArgs, e \in EnvArgs : InitCall(ef, e)
    \/ \E k \in SetKeys, v \in SetValues : SetCall(k, v)
    \/ \E k \in ReadKeys : GetCall(k)
    \/ \E k \in ReadKeys : HasCall(k)
    \/ \E k \in ReadKeys : RequireCall(k)
    \/ \E q \in KeyLists : RequiredVarsCall(q)
    \/ \E q \in KeyLists : ValidateCall(q)

Spec == Init /\ [][Next]_vars

(***************************************************************************)
(* SpecCopy: the same process handing out its map with GetAll, and the     *)
(* caller writing to what it got.                                          *)
(***************************************************************************)
NextCopy ==
    \/ \E ef \in EnvfileArgs : InitCall(ef, EmptyStr)
    \/ \E k \in {K_foo, K_bar}, v \in {V_v} : SetCall(k, v)
    \/ \E k \in {K_Foo} : GetCall(k)
    \/ GetAllCall
    \/ \E r \in returned, k \in {K_FOO, K_BAR}, v \in {V_w} : WriteReturned(r, k, v)
    \/ \E r \in returned, k \in {K_FOO, K_BAR} : DeleteReturned(r, k)

SpecCopy == Init /\ [][NextCopy]_vars

(***************************************************************************)
(* SpecLoad: Init and Load over the inputs a process can be started with.  *)
(***************************************************************************)
InitLoad ==
    /\ environ \in EnvironChoices
    /\ envFile \in EnvFileChoices
    /\ remote \in RemoteChoices
    /\ Fresh

NextLoad ==
    \/ \E ef \in EnvfileArgs, e \in EnvArgs : InitCall(ef, e)
    \/ \E k \in {K_foo, K_REGISTRY}, v \in {V_v} : SetCall(k, v)

SpecLoad == InitLoad /\ [][NextLoad]_vars

(***************************************************************************)
(* SpecFetch: the remote fetch as a function of what the service answers.  *)
(***************************************************************************)
FetchAnswers == {NotFound, BadRecord, BadValue, Found(ObjGlobalDev), Found(ObjEntityDev)}

InitFetch ==
    /\ environ = EmptyMap
    /\ envFile = NoFile
    /\ remote \in {RemoteOf(gl, gn, el, en) : gl \in FetchAnswers, gn \in FetchAnswers,
                                               el \in FetchAnswers, en \in FetchAnswers}
    /\ Fresh

NextFetch ==
    \E name \in {EmptyStr, V_cfg}, label \in {EmptyStr, V_dev}, imageName \in {EmptyStr, V_app1} :
        FetchCall(name, label, imageName)

SpecFetch == InitFetch /\ [][NextFetch]_vars

(***************************************************************************)
(* SpecCmd: one run of azctl, PersistentPreRunE and then a command, in an  *)
(* environment that defines what the commands need except, possibly, the   *)
(* resource groups and the image name.                                     *)
(***************************************************************************)
EnvBase ==
    (K_REGISTRY :> V_acr1) @@ (K_IMAGE_TAG :> V_tag1) @@ (K_CONTAINER_GROUP_NAME :> V_cg1)
    @@ (K_DNS_NAME_LABEL :> V_dns1) @@ (K_ACR_USERNAME :> V_user) @@ (K_ACR_PASSWORD :> V_pass)
    @@ (K_NEXT_PUBLIC_URL :> V_v)

EnvOptional ==
    {<<K_RESOURCE_GROUP, V_rg1>>, <<EnvKey(V_dev, K_RESOURCE_GROUP), V_rg2>>,
     <<K_ACR_RESOURCE_GROUP, V_rg1>>, <<K_IMAGE_NAME, V_app1>>}

EnvGitHub ==
    (K_GITHUB_ACTIONS :> envTrue) @@ (K_GITHUB_REF :> V_refDev)
    @@ (K_GITHUB_REPOSITORY :> V_repo) @@ (K_GITHUB_SHA :> V_sha)

\* What az answers to the acr command: the listing of the resource groups
\* fails or gives V_groups, the registry is in none of them or in rg2, and
\* the build succeeds or fails.
AzAnswers ==
    {[listOk |-> FALSE, acrIn |-> {}, buildOk |-> TRUE],
     [listOk |-> TRUE, acrIn |-> {}, buildOk |-> TRUE],
     [listOk |-> TRUE, acrIn |-> {V_rg2}, buildOk |-> TRUE],
     [listOk |-> TRUE, acrIn |-> {V_rg2}, buildOk |-> FALSE]}

\* A world in which az and the file system do as they are asked.
QuietWorld ==
    [azFail |-> {}, fsFail |-> {}, fluent |-> T_FluentPlain, template |-> T_Aci, jsonOk |-> TRUE]

InitCmd ==
    /\ environ \in {Overlay(Overlay(EnvBase, MapOf(c)), ci) :
                        c \in SUBSET EnvOptional, ci \in {EmptyMap, EnvGitHub}}
    /\ envFile = NoFile
    /\ remote = RemoteOf(NotFound, NotFound, NotFound, NotFound)
    /\ Fresh

NextCmd ==
    \/ \E e \in EnvArgs : PersistentPreRunE(DotEnvPath, e)
    \/ \E rg \in {EmptyStr, V_rgF}, st \in BOOLEAN, sf \in BOOLEAN, dry \in BOOLEAN :
          RunACI(rg, st, sf, dry, QuietWorld)
    \/ \E rg \in {EmptyStr, V_rgF}, n \in {EmptyStr, V_app1}, p \in {EmptyStr, V_plan1} :
          RunWebApp(rg, n, p, QuietWorld)
    \/ \E reg \in {EmptyStr, V_regF}, rg \in {EmptyStr, V_rgF}, img \in {EmptyStr, V_imgF},
          tag \in {EmptyStr, V_tagF}, az \in AzAnswers :
          RunACR(reg, rg, img, tag, az.listOk, V_groups, az.acrIn, az.buildOk)

SpecCmd == InitCmd /\ [][NextCmd]_vars

(***************************************************************************)
(* SpecCI: Init in environments that carry the CI indicators of            *)
(* isCIEnvironment, with and without a dotenv file.                        *)
(***************************************************************************)
V_one == <<"1">>

CIEnvironChoices ==
    {Overlay(Overlay(ci, gh), MapOf(c)) :
        ci \in {EmptyMap, K_CI :> envTrue, K_CI :> V_one},
        gh \in {EmptyMap, K_GITHUB_ACTIONS :> envTrue},
        c \in SUBSET {<<K_foo, V_e1>>}}

InitCI ==
    /\ environ \in CIEnvironChoices
    /\ envFile \in EnvFileChoices
    /\ remote = RemoteOf(NotFound, NotFound, NotFound, NotFound)
    /\ Fresh

NextCI ==
    \/ \E ef \in EnvfileArgs, e \in EnvArgs : InitCall(ef, e)
    \/ \E k \in ReadKeys \cup {K_ACR_REGISTRY} : GetCall(k)

SpecCI == InitCI /\ [][NextCI]_vars

(***************************************************************************)
(* SpecConc: a Load and two other calls on the Config that Init has just   *)
(* created, each in its own goroutine.                                     *)
(***************************************************************************)
InitConc ==
    /\ environ \in {(K_foo :> V_e1) @@ (K_REGISTRY :> V_e2), K_foo :> V_e1}
    /\ envFile \in {NoFile, FileOf(TRUE, FileContentsA)}
    /\ remote = RemoteOf(NotFound, NotFound, NotFound, NotFound)
    /\ heap = <<EmptyMap>>
    /\ globalConfig = 1
    /\ onceDone = TRUE
    /\ loadCount = 0
    /\ loadTrace = <<>>
    /\ initResults = <<>>
    /\ setLog = <<>>
    /\ returned = {}
    /\ mutations = 0
    /\ ret = [op |-> "none"]
    /\ mu = Unlocked
    /\ goroutines = [g \in Goroutines |-> Idle]

NextConc ==
    \/ \E g \in Goroutines, k \in {K_foo, K_ACR_REGISTRY} : StartGet(g, k)
    \/ \E g \in Goroutines : StartHas(g, K_Foo)
    \/ \E g \in Goroutines, k \in {K_foo, K_REGISTRY} : StartSet(g, k, V_v)
    \/ \E g \in Goroutines : StartGetAll(g)
    \/ \E g \in Goroutines : StartLoad(g, DotEnvPath, EmptyStr)
    \/ \E g \in Goroutines : LoadProvider(g)
    \/ \E g \in Goroutines : RLock(g)
    \/ \E g \in Goroutines : MapRead(g)
    \/ \E g \in Goroutines : MapCopy(g)
    \/ \E g \in Goroutines : RUnlock(g)
    \/ \E g \in Goroutines : Lock(g)
    \/ \E g \in Goroutines : MapWriteBegin(g)
    \/ \E g \in Goroutines : MapWriteEnd(g)
    \/ \E g \in Goroutines : Unlock(g)

SpecConc == InitConc /\ [][NextConc]_vars

(***************************************************************************)
(* SpecAz: calls of the az command line that succeed or fail.              *)
(***************************************************************************)
AzArgs ==
    {<<"acr", "build">>, <<"container", "create">>, <<"webapp", "show">>,
     <<"webapp", "create">>, <<"group", "list">>, <<"storage", "share", "exists">>}

AzStdout == {EmptyStr, V_groups, V_v}

AzRuns == {[err |-> e, stdout |-> o] : e \in {NilError, ExitError, ErrAzNotFound}, o \in AzStdout}

InitAz ==
    /\ environ = EmptyMap
    /\ envFile = NoFile
    /\ remote = RemoteOf(NotFound, NotFound, NotFound, NotFound)
    /\ Fresh

NextAz ==
    \/ \E a \in AzArgs, r \in AzRuns : AZCall(a, r)
    \/ \E a \in AzArgs, r \in AzRuns : AZOutputCall(a, r)

SpecAz == InitAz /\ [][NextAz]_vars

(***************************************************************************)
(* SpecRender: templates rendered against the store after Init and Set.    *)
(***************************************************************************)
T_Json == <<"{", "\"", "x", "\"", ":", "\"", "{", "{", " ", "e", "n", "v", " ", "\"", "F", "O", "O", "\"", " ", "}", "}", "\"", "}">>
T_Two == <<"{", "{", "e", "n", "v", " ", "\"", "f", "o", "o", "\"", "}", "}", "-", "{", "{", " ", "e", "n", "v", " ", "\"", "B", "A", "R", "\"", " ", "}", "}">>
T_Plain == <<"p", "l", "a", "i", "n", " ", "}", "}", " ", "t", "e", "x", "t">>
T_Registry == <<"r", "=", "{", "{", " ", "e", "n", "v", " ", "\"", "R", "E", "G", "I", "S", "T", "R", "Y", "\"", " ", "}", "}">>
T_Unclosed == <<"{", "{", " ", "e", "n", "v", " ", "\"", "F", "O", "O", "\"", " ">>
T_Field == <<"{", "{", " ", ".", "F", "O", "O", " ", "}", "}">>
T_Unknown == <<"{", "{", " ", "e", "n", "v", " ", "F", "O", "O", " ", "}", "}">>
Templates == {T_Json, T_Two, T_Plain, T_Registry, T_Unclosed, T_Field, T_Unknown}

NextRender ==
    \/ \E ef \in EnvfileArgs, e \in EnvArgs : InitCall(ef, e)
    \/ \E k \in SetKeys, v \in SetValues : SetCall(k, v)
    \/ \E t \in Templates : RenderEnvCall(t)

SpecRender == Init /\ [][NextRender]_vars

(***************************************************************************)
(* SpecRemote: Init with the remote source named through APP_CONFIG_NAME   *)
(* or APP_CONFIG, skipped or not, and the registry keys spread over the    *)
(* sources.                                                                *)
(***************************************************************************)
RemoteEnvCandidates ==
    {<<K_APP_CONFIG_NAME, V_cfg>>, <<K_APP_CONFIG, V_cfg>>, <<K_APP_CONFIG_SKIP, envTrue>>,
     <<K_IMAGE_NAME, V_app1>>, <<K_REGISTRY, V_e2>>}

InitRemote ==
    /\ environ \in {MapOf(c) : c \in SUBSET RemoteEnvCandidates}
    /\ envFile \in {NoFile, FileOf(TRUE, FileContentsA)}
    /\ remote \in RemoteChoices
    /\ Fresh

NextRemote ==
    \/ \E ef \in EnvfileArgs, e \in EnvArgs : InitCall(ef, e)
    \/ \E k \in {K_REGISTRY, K_ACR_REGISTRY} : GetCall(k)

SpecRemote == InitRemote /\ [][NextRemote]_vars

(***************************************************************************)
(* SpecLog: a logging Manager over the loaded configuration.  The          *)
(* environment enables any of the providers and gives any of the storage   *)
(* settings; the world fails any of the storage invocations and at most    *)
(* one of the file operations.                                             *)
(***************************************************************************)
LogEnvCandidates ==
    {{<<K_LOGFLARE_API_KEY, V_e1>>}, {<<K_LOGFLARE_SOURCE_ID, V_e2>>},
     {<<K_MOCK_ENABLED, envTrue>>},
     {<<K_DATADOG_API_KEY, V_e1>>, <<K_DATADOG_SITE, V_e2>>},
     {<<K_LOG_STORAGE_ACCOUNT, V_e1>>}, {<<K_LOG_STORAGE_KEY, V_e2>>},
     {<<K_FLUENTBIT_CONFIG, V_cfg>>}}

LogWorlds ==
    {[azFail |-> a, fsFail |-> f, fluent |-> t] :
        a \in SUBSET {AzShareShow, AzShareCreate, AzFileUpload},
        f \in {{}, {FsReadFluent}, {FsMkdirFluent}, {FsWriteFluent}},
        t \in {T_Fluent, T_FluentPlain}}

InitLog ==
    /\ environ \in {MapOf(UNION c) : c \in SUBSET LogEnvCandidates}
    /\ envFile = NoFile
    /\ remote = RemoteOf(NotFound, NotFound, NotFound, NotFound)
    /\ Fresh

NextLog ==
    \/ InitCall(DotEnvPath, EmptyStr)
    \/ NewManagerCall
    \/ \E p \in {DatadogProvider, MockProvider} : RegisterProviderCall(p)
    \/ \E w \in LogWorlds : GenerateConfigCall(V_app1, w)

SpecLog == InitLog /\ [][NextLog]_vars

(***************************************************************************)
(* SpecDeploy: one run of azctl aci or azctl webapp, in an environment     *)
(* that passes the validation, for each --env and each world: any of the   *)
(* container, web app and storage invocations fails, at most one file      *)
(* operation fails, the template renders or not, is JSON or not.           *)
(***************************************************************************)
DeployEnvBase ==
    Overlay(EnvBase, (K_RESOURCE_GROUP :> V_rg1) @@ (K_IMAGE_NAME :> V_app1))

DeployEnvCandidates ==
    {{<<K_LOGFLARE_API_KEY, V_e1>>, <<K_LOGFLARE_SOURCE_ID, V_e2>>},
     {<<K_FLUENTBIT_CONFIG, V_cfg>>},
     {<<K_APP_SERVICE_PLAN, V_plan1>>}}

DeployEnvArgs == {EmptyStr, envDev, envDevelopment, envStaging, envProd}

AciWorlds ==
    {[azFail |-> a, fsFail |-> f, fluent |-> T_FluentPlain, template |-> t, jsonOk |-> j] :
        a \in (SUBSET {AzContainerShow, AzContainerDelete, AzContainerCreate})
              \cup {{AzShareShow, AzShareCreate}, {AzFileUpload}},
        f \in {{}, {FsReadTemplate}, {FsReadFluent}, {FsMkdirDryRun}, {FsWriteDryRun},
               {FsCreateTemp}, {FsWriteTemp}, {FsRemoveTemp}},
        t \in {T_Aci, T_Json},
        j \in BOOLEAN}

WebWorlds ==
    {[QuietWorld EXCEPT !.azFail = a] :
        a \in SUBSET {AzWebAppShow, AzWebAppCreate, AzWebAppContainerSet, AzWebAppSettingsSet}}

InitDeploy ==
    /\ environ \in {Overlay(DeployEnvBase, MapOf(UNION c)) : c \in SUBSET DeployEnvCandidates}
    /\ envFile = NoFile
    /\ remote = RemoteOf(NotFound, NotFound, NotFound, NotFound)
    /\ Fresh

NextDeploy ==
    \/ \E e \in DeployEnvArgs : PersistentPreRunE(DotEnvPath, e)
    \/ \E dry \in BOOLEAN, w \in AciWorlds : RunACI(EmptyStr, TRUE, FALSE, dry, w)
    \/ \E p \in {EmptyStr, V_plan1}, w \in WebWorlds : RunWebApp(EmptyStr, EmptyStr, p, w)

SpecDeploy == InitDeploy /\ [][NextDeploy]_vars

(***************************************************************************)
(* SpecDetect: the CI detection in environments built variable by          *)
(* variable, as the tests of the detection build them: any GITHUB_REF      *)
(* with or without GITHUB_ACTIONS, the variables of the other CI systems   *)
(* in mixed case, and the indicators isCIEnvironment looks at.             *)
(***************************************************************************)
V_refDevelopment == <<"r", "e", "f", "s", "/", "h", "e", "a", "d", "s", "/", "d", "e", "v", "e", "l", "o", "p", "m", "e", "n", "t">>
V_refStaging == <<"r", "e", "f", "s", "/", "h", "e", "a", "d", "s", "/", "s", "t", "a", "g", "i", "n", "g">>
V_refMain == <<"r", "e", "f", "s", "/", "h", "e", "a", "d", "s", "/", "m", "a", "i", "n">>
V_refProduction == <<"r", "e", "f", "s", "/", "h", "e", "a", "d", "s", "/", "p", "r", "o", "d", "u", "c", "t", "i", "o", "n">>
V_refFeature == <<"r", "e", "f", "s", "/", "h", "e", "a", "d", "s", "/", "f", "e", "a", "t", "u", "r", "e">>
V_refTag == <<"r", "e", "f", "s", "/", "t", "a", "g", "s", "/", "d", "e", "v">>
V_QA == <<"Q", "A">>
V_Staging == <<"S", "t", "a", "g", "i", "n", "g">>
V_PROD == <<"P", "R", "O", "D">>

DetectSettings ==
    {<<K_GITHUB_ACTIONS, envTrue>>, <<K_GITHUB_ACTIONS, V_one>>,
     <<K_AZURE_PIPELINE, envTrue>>, <<K_AZURE_PIPELINE, V_one>>,
     <<K_GITLAB_CI, envTrue>>,
     <<K_SYSTEM_ENVIRONMENT, V_QA>>, <<K_CI_ENVIRONMENT_NAME, V_Staging>>,
     <<K_ENVIRONMENT, V_PROD>>, <<K_JENKINS_URL, V_one>>, <<K_CI, envTrue>>}
    \cup {<<K_GITHUB_REF, r>> : r \in {V_refDev, V_refDevelopment, V_refStaging, V_refMain,
                                       V_refProduction, V_refFeature, V_refTag, envDev}}

InitDetect ==
    /\ environ = EmptyMap
    /\ envFile = NoFile
    /\ remote = RemoteOf(NotFound, NotFound, NotFound, NotFound)
    /\ Fresh

NextDetect ==
    \/ \E s \in DetectSettings : SetenvCall(s[1], s[2])
    \/ DetectCall

SpecDetect == InitDetect /\ [][NextDetect]_vars

(***************************************************************************)
(* SpecReload: Init and then the reload of the acr command, the remote     *)
(* service holding entries of the configuration set cfg, which the         *)
(* environment names by APP_CONFIG_NAME, by DEV_APP_CONFIG or not at all.  *)
(***************************************************************************)
ReloadEnvCandidates ==
    {<<K_APP_CONFIG_NAME, V_cfg>>, <<EnvKey(V_dev, K_APP_CONFIG), V_cfg>>,
     <<K_IMAGE_NAME, V_app1>>, <<K_foo, V_e1>>, <<K_CI, envTrue>>}

InitReload ==
    /\ environ \in {MapOf(c) : c \in SUBSET ReloadEnvCandidates}
    /\ envFile = NoFile
    /\ remote \in RemoteChoices
    /\ Fresh

NextReload ==
    \/ \E e \in EnvArgs : InitCall(DotEnvPath, e)
    \/ ReloadCall(V_dev)
    \/ \E k \in ReadKeys : GetCall(k)

SpecReload == InitReload /\ [][NextReload]_vars

(***************************************************************************)
(* SpecValidate: the validation engine over configurations loaded from     *)
(* environments that give every field of the ACI rule, with good and bad   *)
(* values for the operating system, the port, the DNS label, the CPU and   *)
(* the memory, the CPU also missing.                                       *)
(***************************************************************************)
V_BSD == <<"B", "S", "D">>
V_80a == <<"8", "0", "a">>
V_d_1 == <<"d", "_", "1">>
V_4 == <<"4">>
V_4_5 == <<"4", ".", "5">>
V_0 == <<"0">>
V_0_5 == <<"0", ".", "5">>
V_1dot == <<"1", ".">>
V_16 == <<"1", "6">>
V_16_5 == <<"1", "6", ".", "5">>

ValidateEnvBase ==
    Overlay(EnvBase, (K_RESOURCE_GROUP :> V_rg1) @@ (K_IMAGE_NAME :> V_app1)
                     @@ (K_LOCATION :> D_eastus))

ValidateEnvChoices ==
    {Overlay(ValidateEnvBase,
             (K_OS_TYPE :> os) @@ (K_ACI_PORT :> port) @@ (K_DNS_NAME_LABEL :> dns)
             @@ (K_ACI_MEMORY :> mem) @@ cpu) :
        os \in {D_Linux, D_Windows, V_BSD},
        port \in {D_8080, V_80a},
        dns \in {V_dns1, V_d_1},
        mem \in {D_2, V_16, V_16_5, V_0},
        cpu \in {EmptyMap} \cup {K_ACI_CPU :> c : c \in {D_1, V_4, V_4_5, V_0, V_0_5, V_1dot}}}

InitValidate ==
    /\ environ \in ValidateEnvChoices
    /\ envFile = NoFile
    /\ remote = RemoteOf(NotFound, NotFound, NotFound, NotFound)
    /\ Fresh

NextValidate ==
    \/ InitCall(DotEnvPath, EmptyStr)
    \/ \E rules \in {<<ACIValidation>>, <<WebAppValidation>>, <<WebAppValidation, ACIValidation>>} :
          EngineValidateCall(rules)

SpecValidate == InitValidate /\ [][NextValidate]_vars

(***************************************************************************)
(* SpecFallback: a Load in an environment that gives REGISTRY, beside      *)
(* goroutines that call Set for the keys applyFallbacks derives.           *)
(***************************************************************************)
V_set == <<"s">>          \* the value a caller Sets for IMAGE_REGISTRY

FallbackSets == {<<K_ACR_REGISTRY, V_v>>, <<K_IMAGE_REGISTRY, V_set>>}

InitFallback ==
    /\ environ = (K_foo :> V_e1) @@ (K_REGISTRY :> V_e2)
    /\ envFile = NoFile
    /\ remote = RemoteOf(NotFound, NotFound, NotFound, NotFound)
    /\ heap = <<EmptyMap>>
    /\ globalConfig = 1
    /\ onceDone = TRUE
    /\ loadCount = 0
    /\ loadTrace = <<>>
    /\ initResults = <<>>
    /\ setLog = <<>>
    /\ returned = {}
    /\ mutations = 0
    /\ ret = [op |-> "none"]
    /\ mu = Unlocked
    /\ goroutines = [g \in Goroutines |-> Idle]

NextFb ==
    \/ \E g \in Goroutines, s \in FallbackSets : StartSet(g, s[1], s[2])
    \/ \E g \in Goroutines : StartLoad(g, DotEnvPath, EmptyStr)
    \/ \E g \in Goroutines : LoadProvider(g)
    \/ \E g \in Goroutines : RLock(g)
    \/ \E g \in Goroutines : MapRead(g)
    \/ \E g \in Goroutines : RUnlock(g)
    \/ \E g \in Goroutines : Lock(g)
    \/ \E g \in Goroutines : MapWriteBegin(g)
    \/ \E g \in Goroutines : MapWriteEnd(g)
    \/ \E g \in Goroutines : Unlock(g)

SpecFallback == InitFallback /\ [][NextFb]_vars

(***************************************************************************)
(* SpecOnce: goroutines that call Init and Current in a fresh process.     *)
(***************************************************************************)
InitOnce ==
    /\ environ \in {K_foo :> V_e1, (K_foo :> V_e1) @@ (K_REGISTRY :> V_e2)}
    /\ envFile \in {NoFile, FileOf(TRUE, FileContentsA)}
    /\ remote = RemoteOf(NotFound, NotFound, NotFound, NotFound)
    /\ heap = <<>>
    /\ globalConfig = 0
    /\ onceDone = FALSE
    /\ loadCount = 0
    /\ loadTrace = <<>>
    /\ initResults = <<>>
    /\ setLog = <<>>
    /\ returned = {}
    /\ mutations = 0
    /\ ret = [op |-> "none"]
    /\ mu = Unlocked
    /\ goroutines = [g \in Goroutines |-> IdleInit]

NextOnce ==
    \/ \E g \in Goroutines, e \in {EmptyStr, V_dev} : StartInit(g, DotEnvPath, e)
    \/ \E g \in Goroutines : OnceDo(g)
    \/ \E g \in Goroutines : OnceDoSlow(g)
    \/ \E g \in Goroutines : OnceNew(g)
    \/ \E g \in Goroutines : OnceLoad(g)
    \/ \E g \in Goroutines : OnceStore(g)
    \/ \E g \in Goroutines : InitReturn(g)
    \/ \E g \in Goroutines : CurrentIn(g)

SpecOnce == InitOnce /\ [][NextOnce]_vars

(***************************************************************************)
(* Properties.                                                             *)
(***************************************************************************)
\* The Config's map (empty before Init).
Store == IF globalConfig = 0 THEN EmptyMap ELSE heap[globalConfig]

IsLower(c) == \E i \in 1..Len(LowerLetters) : LowerLetters[i] = c
IsUpperKey(k) == \A i \in 1..Len(k) : ~IsLower(k[i])

\* What provider p returned during the Load (the empty map when it failed).
Returned(p) ==
    LET hits == {i \in 1..Len(loadTrace) : loadTrace[i].name = p /\ loadTrace[i].err = NilErr}
    IN  IF hits = {} THEN EmptyMap ELSE loadTrace[CHOOSE i \in hits : TRUE].values
ProviderErr(p) ==
    LET hits == {i \in 1..Len(loadTrace) : loadTrace[i].name = p}
    IN  IF hits = {} THEN NilErr ELSE loadTrace[CHOOSE i \in hits : TRUE].err

\* The value of the highest-precedence source that defines K:
\* Process Environment > Local File > Remote Config.
HighestPrecedenceValue(K) ==
    IF K \in DOMAIN Returned(ProvEnvironment) THEN Returned(ProvEnvironment)[K]
    ELSE IF K \in DOMAIN Returned(ProvEnvFile) THEN Returned(ProvEnvFile)[K]
    ELSE Returned(ProvAzure)[K]
SourceKeys ==
    DOMAIN Returned(ProvEnvironment) \cup DOMAIN Returned(ProvEnvFile) \cup DOMAIN Returned(ProvAzure)

\* C1: after Load (and before any Set), for every key that a source defines
\* with a non-empty value, Get returns the value of the highest-precedence
\* source that defines it: Process Environment > Local File > Remote Config.
C1_HighestPrecedenceWins ==
    (loadCount = 1 /\ setLog = <<>>) =>
        \A K \in SourceKeys :
            HighestPrecedenceValue(K) # EmptyStr => Get(Store, K) = HighestPrecedenceValue(K)

\* C2: when the remote fetch found an entry whose value is malformed JSON,
\* Load, and so the first Init, returns a non-nil error.
C2_MalformedRemoteFailsLoad ==
    (loadCount = 1 /\ ProviderErr(ProvAzure) = ErrMalformedJSON) => initResults[1] # NilErr

\* Every answer the remote service gives is a failure (it is unreachable).
RemoteUnreachable == \A q \in DOMAIN remote : remote[q].err

\* C3: when the Local File Source fails to read the dotenv file (or the
\* remote service is unreachable), Load returns nil, nothing the failing
\* source holds is in the store, and every key returned by a source that
\* succeeded is in the store.
C3_RecoverableFailureSkipsSource ==
    (loadCount = 1 /\ setLog = <<>>) =>
        /\ ProviderErr(ProvEnvFile) = ErrReadEnvFile =>
              /\ initResults[1] = NilErr
              /\ \A K \in DOMAIN Store : Store[K] \notin Range(envFile.contents)
              /\ \A p \in {ProvEnvironment, ProvAzure} : DOMAIN Returned(p) \subseteq DOMAIN Store
        /\ RemoteUnreachable =>
              /\ initResults[1] = NilErr
              /\ ProviderErr(ProvAzure) = NilErr
              /\ Returned(ProvAzure) = EmptyMap
              /\ \A p \in {ProvEnvironment, ProvEnvFile} : DOMAIN Returned(p) \subseteq DOMAIN Store

C3_Witness ==
    /\ loadCount = 1
    /\ setLog = <<>>
    /\ ProviderErr(ProvEnvFile) = ErrReadEnvFile
    /\ Returned(ProvAzure) # EmptyMap
    /\ K_FOO \in DOMAIN Returned(ProvEnvironment)

\* C5: an Init call made after the first one has completed performs no
\* Load, leaves the store's identity and its contents (Set values included)
\* unchanged, and returns what the first Init returned.
C5_LaterInitIsNoOp ==
    [][(onceDone /\ Len(initResults') = Len(initResults) + 1) =>
          /\ heap' = heap
          /\ globalConfig' = globalConfig
          /\ loadCount' = loadCount
          /\ loadTrace' = loadTrace
          /\ initResults'[Len(initResults')] = initResults[1]]_vars

C5_Witness ==
    /\ Len(initResults) = 2
    /\ ret.op = "Init"
    /\ Len(setLog) > 0
    /\ loadCount = 1

\* The index of the last Set call whose key differs from k at most in case
\* (0 when there is none).
LastSetOf(k) ==
    LET idx == {i \in 1..Len(setLog) : DifferOnlyInCase(setLog[i][1], k)}
    IN  IF idx = {} THEN 0 ELSE CHOOSE i \in idx : \A j \in idx : j <= i

Spellings == {K_foo, K_Foo, K_FOO, K_bar, K_BAR}

\* C7: after any sequence of Set calls, Get(k2) returns the value of the
\* last Set whose key differs from k2 at most in letter case.
C7_CaseInsensitiveLastWriteWins ==
    /\ \A k2 \in Spellings :
          LastSetOf(k2) # 0 => Get(Store, k2) = setLog[LastSetOf(k2)][2]
    /\ (ret.op = "Get" /\ LastSetOf(ret.key) # 0) => ret.value = setLog[LastSetOf(ret.key)][2]

C7_Witness ==
    /\ setLog = <<<<K_foo, V_v>>, <<K_FOO, V_w>>>>
    /\ ret.op = "Get"
    /\ ret.key = K_Foo
    /\ ret.value = V_w

\* C8: every key of the store's map is in upper-case form, and no two
\* stored keys differ only in case.
C8_StoredKeysAreUpperCase ==
    /\ \A k \in DOMAIN Store : IsUpperKey(k)
    /\ \A k1, k2 \in DOMAIN Store : DifferOnlyInCase(k1, k2) => k1 = k2

C8_Witness ==
    /\ K_foo \in DOMAIN environ
    /\ envFile.readable /\ K_Foo \in DOMAIN envFile.contents
    /\ K_FOO \in DOMAIN Returned(ProvEnvFile)
    /\ K_ACR_REGISTRY \in DOMAIN Store
    /\ Len(setLog) > 0 /\ setLog[1][1] = K_foo
    /\ DOMAIN Store \cap {K_foo, K_Foo} = {}

\* C9: the map GetAll returns holds the store's entries at the time of the
\* call, and a later write to or delete from it leaves the store's map, and
\* so every later Get, Has and GetAll, as it was.
C9_GetAllReturnsACopy ==
    /\ ret.op = "GetAll" => heap[ret.ref] = ret.before /\ Store = ret.before
    /\ ret.op = "Mutate" =>
          /\ Store = ret.before
          /\ \A k \in Spellings :
                /\ Get(Store, k) = Get(ret.before, k)
                /\ Has(Store, k) = Has(ret.before, k)

C9_Witness ==
    /\ ret.op = "Mutate"
    /\ heap[ret.ref] # Store
    /\ Store # EmptyMap

\* The key is stored, under some spelling, with a non-empty value.
HasNonEmpty(values, key) ==
    \E K \in DOMAIN values : DifferOnlyInCase(K, key) /\ values[K] # EmptyStr

\* C10: Require(key) returns Get(key) when that value is non-empty and
\* panics when the key is absent or empty; the store is left unchanged.
C10_RequireReturnsOrPanics ==
    ret.op = "Require" =>
        /\ Store = ret.before
        /\ IF HasNonEmpty(Store, ret.key)
           THEN ~ret.panic /\ ret.value = Get(Store, ret.key) /\ ret.value # EmptyStr
           ELSE ret.panic

C10_Witness ==
    /\ ret.op = "Require"
    /\ ret.panic
    /\ ToUpper(ret.key) \in DOMAIN Store

\* The answer the service gave to the i-th request of the last fetch.
AnswerTo(i) == AzShow(ret.calls[i][1], ret.calls[i][2], ret.calls[i][3])

\* C4: whenever a fetch of an entry succeeded and what it returned cannot be
\* parsed (the record or its JSON-object value), on any of the four fetch
\* paths, fetchAzureAppConfigWithImage returns a non-nil error and no
\* mapping; when every fetch failed (not found) it returns no error.
C4_FoundButMalformedIsAnError ==
    ret.op = "Fetch" =>
        /\ (\E i \in 1..Len(ret.calls) :
               ~AnswerTo(i).err /\ (~AnswerTo(i).recordOk \/ ~AnswerTo(i).valueOk))
              => (ret.err # NilErr /\ ret.nilMap)
        /\ (\A i \in 1..Len(ret.calls) : AnswerTo(i).err) => ret.err = NilErr

\* C6: for each of the acr, aci and webapp commands, a value passed through
\* a CLI flag is the value the command validates and uses for the flag's
\* configuration key, whatever the sources define: once a command has taken
\* its flags, a key given by flag is not reported missing by the required-key
\* validation, and the configuration holds the flag's value under it.
C6_FlagValueIsValidatedAndUsed ==
    (/\ ret.op \in {"acr", "aci", "webapp"}
     /\ ret.stage \notin {StageEnvRequired, StageTemplateNotFound}) =>
        \A k \in DOMAIN ret.flags :
            ret.flags[k] # EmptyStr =>
                /\ k \notin Elems(ret.missing)
                /\ Get(Store, k) = ret.flags[k]

\* strings.Contains
Contains(s, sub) ==
    \E i \in 1..(Len(s) - Len(sub) + 1) : SubSeq(s, i, i + Len(sub) - 1) = sub

\* The names a message lists after its prefix, separated by ", ".
RECURSIVE SplitList(_)
SplitList(s) ==
    IF \A i \in 1..(Len(s) - 1) : SubSeq(s, i, i + 1) # CommaSpace THEN <<s>>
    ELSE LET i == CHOOSE j \in 1..(Len(s) - 1) :
                      /\ SubSeq(s, j, j + 1) = CommaSpace
                      /\ \A h \in 1..(j - 1) : SubSeq(s, h, h + 1) # CommaSpace
         IN  <<SubSeq(s, 1, i - 1)>> \o SplitList(SubSeq(s, i + 2, Len(s)))

\* The keys of q that have no non-empty value in values, in the order of q.
RECURSIVE MissingOf(_, _)
MissingOf(values, q) ==
    IF q = <<>> THEN <<>>
    ELSE (IF HasNonEmpty(values, q[1]) THEN <<>> ELSE <<q[1]>>) \o MissingOf(values, Tail(q))

\* What an error listing `missing` after `prefix` must look like.
NamesExactly(err, prefix, missing) ==
    /\ err.nil <=> missing = <<>>
    /\ ~err.nil =>
          /\ HasPrefix(err.msg, prefix)
          /\ SplitList(TrimPrefix(err.msg, prefix)) = missing
          /\ \A i \in 1..Len(missing) : Contains(err.msg, missing[i])

\* C11: RequiredVars(cfg, keys) (and Config.Validate) returns nil if and
\* only if every key of keys has a non-empty value in cfg; otherwise the one
\* error it returns lists, after its prefix, exactly the missing keys in the
\* order of keys, so it names every missing key and no key that is present.
C11_RequiredVarsNamesExactlyTheMissing ==
    /\ ret.op = "RequiredVars" =>
          NamesExactly(ret.err, MsgMissingEnvVars, MissingOf(ret.before, ret.keys))
    /\ ret.op = "Validate" =>
          NamesExactly(ret.err, MsgMissingCfgVars, MissingOf(ret.before, ret.keys))

\* Of three keys only the middle one is present: the error names the first
\* and the third and not the second.
C11_Witness ==
    /\ ret.op = "RequiredVars"
    /\ Len(ret.keys) = 3
    /\ ~ret.err.nil
    /\ HasNonEmpty(ret.before, ret.keys[2])
    /\ Contains(ret.err.msg, ret.keys[1])
    /\ Contains(ret.err.msg, ret.keys[3])
    /\ ~Contains(ret.err.msg, ret.keys[2])

\* The Init that has just returned is the one that ran Load.
JustLoaded == ret.op = "Init" /\ "merged" \in DOMAIN ret

\* The entries the remote service holds that have a field spelled like key.
RemoteHasField(key) ==
    \E a \in Range(remote) :
        a.valueOk /\ \E f \in DOMAIN a.fields : DifferOnlyInCase(f, key) /\ a.fields[f].isString

\* C12: after Load, ACR_REGISTRY equals REGISTRY when the merged sources
\* left ACR_REGISTRY absent or empty and REGISTRY non-empty, and keeps its
\* value when it was non-empty; REGISTRY itself is what the sources merged
\* to, never a copy of ACR_REGISTRY, and the remote fetch returns REGISTRY
\* only for an entry field of that name.
C12_RegistryFallbackIsOneWay ==
    JustLoaded =>
        /\ (Get(ret.merged, K_ACR_REGISTRY) = EmptyStr /\ Get(ret.merged, K_REGISTRY) # EmptyStr)
              => Get(Store, K_ACR_REGISTRY) = Get(ret.merged, K_REGISTRY)
        /\ Get(ret.merged, K_ACR_REGISTRY) # EmptyStr
              => Get(Store, K_ACR_REGISTRY) = Get(ret.merged, K_ACR_REGISTRY)
        /\ Get(Store, K_REGISTRY) = Get(ret.merged, K_REGISTRY)
        /\ (K_REGISTRY \in DOMAIN Store) <=> (K_REGISTRY \in DOMAIN ret.merged)
        /\ \A i \in 1..Len(loadTrace) :
              (loadTrace[i].name = ProvAzure /\ K_REGISTRY \in DOMAIN loadTrace[i].values)
                  => RemoteHasField(K_REGISTRY)

\* ACR_REGISTRY was derived from REGISTRY.
C12_Witness ==
    /\ JustLoaded
    /\ Get(ret.merged, K_ACR_REGISTRY) = EmptyStr
    /\ Get(ret.merged, K_REGISTRY) # EmptyStr
    /\ Get(Store, K_ACR_REGISTRY) = Get(Store, K_REGISTRY)

\* The sources gave ACR_REGISTRY and no REGISTRY: REGISTRY stays absent.
C12_WitnessNoReverse ==
    /\ JustLoaded
    /\ Get(ret.merged, K_ACR_REGISTRY) # EmptyStr
    /\ Get(Store, K_REGISTRY) = EmptyStr
    /\ \E i \in 1..Len(loadTrace) :
          loadTrace[i].name = ProvAzure /\ K_ACR_REGISTRY \in DOMAIN loadTrace[i].values

\* What the Local File Source did in the Load that has just returned.
EnvFileEntry == loadTrace[CHOOSE i \in 1..Len(loadTrace) : loadTrace[i].name = ProvEnvFile]

\* The Local File Source returned an empty mapping and no error, and no key
\* that only the file defines is in the store.
FileSkipped ==
    /\ EnvFileEntry.err = NilErr
    /\ EnvFileEntry.values = EmptyMap
    /\ \A k \in DOMAIN envFile.contents :
          (\A e \in DOMAIN environ : ~DifferOnlyInCase(e, k)) => Get(Store, k) = EmptyStr

\* C13: the Local File Source returns an empty mapping and no error, without
\* reading the file, whenever a CI indicator environment variable is set,
\* and whenever the configured path is empty or does not exist; in CI a key
\* defined only in the dotenv file is therefore absent from the store.
C13_FileSkippedInCI ==
    JustLoaded =>
        ((isCIEnvironment \/ ret.envfile = EmptyStr \/ ~StatOk(ret.envfile)) => FileSkipped)

\* What the source does: the file is skipped when CI is exactly "true",
\* when the path is empty and when the file does not exist.
C13_FileSkippedWhenCIIsTrue ==
    JustLoaded =>
        ((Getenv(K_CI) = envTrue \/ ret.envfile = EmptyStr \/ ~StatOk(ret.envfile))
            => FileSkipped)

\* A CI indicator is set and the dotenv file was read into the store.
C13_FileReadInCI ==
    /\ JustLoaded
    /\ isCIEnvironment
    /\ EnvFileEntry.values # EmptyMap
    /\ Get(Store, K_ACR_REGISTRY) = V_f2

\* The requests of the last fetch that asked for the entry `key`, in order.
CallsFor(key) == SelectSeq(ret.calls, LAMBDA c : c[2] = key)

\* For one entry: the first request carries the label, and a second one,
\* without label, follows exactly when a label was given and the first failed.
FallbackRule(key) ==
    LET c == CallsFor(key)
    IN  /\ Len(c) <= 2
        /\ Len(c) >= 1 =>
              /\ c[1] = <<ret.name, key, ret.label>>
              /\ Len(c) = 2 <=> (ret.label # EmptyStr /\ AzShow(c[1][1], c[1][2], c[1][3]).err)
        /\ Len(c) = 2 => c[2] = <<ret.name, key, EmptyStr>>

\* C14: within one remote Load and for each entry (the global one, and the
\* entity one when an entity key is configured) the fetch without label is
\* issued if and only if a non-empty label was used and the labelled fetch
\* failed, at most once: an entry is fetched at most twice and one Load
\* issues at most four fetches, all of them for these two entries.
C14_FallbackFetchOnlyAfterLabelledFailure ==
    (ret.op = "Fetch" /\ ret.name # EmptyStr) =>
        /\ Len(CallsFor(GlobalKey)) >= 1
        /\ FallbackRule(GlobalKey)
        /\ ret.imageName # EmptyStr => FallbackRule(ret.imageName)
        /\ ret.imageName = EmptyStr => \A i \in 1..Len(ret.calls) : ret.calls[i][2] = GlobalKey
        /\ \A i \in 1..Len(ret.calls) : ret.calls[i][2] \in {GlobalKey, ret.imageName}
        /\ Len(ret.calls) <= 4

\* Both labelled fetches failed: four requests were issued.
C14_Witness ==
    /\ ret.op = "Fetch"
    /\ ret.label # EmptyStr
    /\ Len(ret.calls) = 4
    /\ Len(CallsFor(GlobalKey)) = 2
    /\ Len(CallsFor(ret.imageName)) = 2

\* The answer that supplied the entry `key` to the last fetch: the last
\* request for it, when that request succeeded.
EntryFound(key) ==
    /\ CallsFor(key) # <<>>
    /\ LET c == CallsFor(key)[Len(CallsFor(key))]
       IN  LET a == AzShow(c[1], c[2], c[3]) IN ~a.err /\ a.recordOk /\ a.valueOk
EntryFields(key) ==
    LET c == CallsFor(key)[Len(CallsFor(key))]
    IN  StringFields(AzShow(c[1], c[2], c[3]).fields)

\* The values the string fields of obj give to the upper-cased key K.
ValuesFor(obj, K) == {obj[f] : f \in {g \in DOMAIN obj : ToUpper(g) = K}}

\* C15: when the global entry and the entity-key entry are both found and
\* well-formed, the result of the remote Load contains every string field of
\* both under its upper-cased name, and a key that both define holds the
\* value of the entity entry.
C15_EntityEntryOverridesGlobal ==
    (/\ ret.op = "Fetch"
     /\ ret.imageName # EmptyStr
     /\ EntryFound(GlobalKey)
     /\ EntryFound(ret.imageName)) =>
        LET G == EntryFields(GlobalKey)
            E == EntryFields(ret.imageName)
        IN  /\ ret.err = NilErr
            /\ DOMAIN ret.values = {ToUpper(f) : f \in DOMAIN G \cup DOMAIN E}
            /\ \A K \in DOMAIN ret.values :
                  IF ValuesFor(E, K) # {} THEN ret.values[K] \in ValuesFor(E, K)
                  ELSE ret.values[K] \in ValuesFor(G, K)

\* Both entries define FOO; the result holds the entity entry's value and
\* keeps REGISTRY, which only the global entry defines.
C15_Witness ==
    /\ ret.op = "Fetch"
    /\ ret.imageName # EmptyStr
    /\ EntryFound(GlobalKey)
    /\ EntryFound(ret.imageName)
    /\ ValuesFor(EntryFields(GlobalKey), K_FOO) = {V_r1}
    /\ ValuesFor(EntryFields(ret.imageName), K_FOO) = {V_r3}
    /\ ret.values[K_FOO] = V_r3
    /\ ret.values[K_REGISTRY] = V_r2

\* What the Remote Config Source did in the Load that has just returned.
AzureEntry == loadTrace[CHOOSE i \in 1..Len(loadTrace) : loadTrace[i].name = ProvAzure]

\* C16: when the configuration-set name is unset (neither APP_CONFIG_NAME
\* nor APP_CONFIG) or APP_CONFIG_SKIP is true, the Remote Config Source
\* returns an empty mapping and no error and issues no external fetch.
C16_RemoteSourceDisabledFetchesNothing ==
    (/\ JustLoaded
     /\ \/ Getenv(K_APP_CONFIG_SKIP) = envTrue
        \/ (Getenv(K_APP_CONFIG_NAME) = EmptyStr /\ Getenv(K_APP_CONFIG) = EmptyStr)) =>
        /\ AzureEntry.values = EmptyMap
        /\ ~AzureEntry.nilMap
        /\ AzureEntry.err = NilErr
        /\ AzureEntry.calls = <<>>

\* The set is named and holds an entry, but APP_CONFIG_SKIP is true.
C16_Witness ==
    /\ JustLoaded
    /\ Getenv(K_APP_CONFIG_SKIP) = envTrue
    /\ Getenv(K_APP_CONFIG_NAME) = V_cfg
    /\ ~AzShow(V_cfg, GlobalKey, ret.env).err
    /\ AzureEntry.values = EmptyMap
    /\ AzureEntry.calls = <<>>

\* The set is not named and nothing is fetched.
C16_WitnessUnnamed ==
    /\ JustLoaded
    /\ Getenv(K_APP_CONFIG_SKIP) = EmptyStr
    /\ Getenv(K_APP_CONFIG_NAME) = EmptyStr
    /\ AzureEntry.calls = <<>>

\* The set is named through APP_CONFIG alone and the fetch is issued.
C16_WitnessAppConfig ==
    /\ JustLoaded
    /\ Getenv(K_APP_CONFIG_NAME) = EmptyStr
    /\ Getenv(K_APP_CONFIG) = V_cfg
    /\ AzureEntry.calls # <<>>

\* The set is named and not skipped: the fetch is issued.
C16_WitnessFetched ==
    /\ JustLoaded
    /\ AzureEntry.calls # <<>>

\* Some entry found by the last fetch has a string field that upper-cases to
\* K and holds val.
SomeFoundEntryGives(K, val) ==
    \E i \in 1..Len(ret.calls) :
        /\ ~AnswerTo(i).err /\ AnswerTo(i).recordOk /\ AnswerTo(i).valueOk
        /\ \E f \in DOMAIN AnswerTo(i).fields :
              /\ ToUpper(f) = K
              /\ AnswerTo(i).fields[f].isString
              /\ AnswerTo(i).fields[f].str = val

\* Some entry found by the last fetch has a field that is not a string.
SomeNonStringField ==
    \E i \in 1..Len(ret.calls) :
        /\ ~AnswerTo(i).err /\ AnswerTo(i).recordOk /\ AnswerTo(i).valueOk
        /\ \E f \in DOMAIN AnswerTo(i).fields : ~AnswerTo(i).fields[f].isString

\* C17: the mapping the Remote Config Source returns has a key only if some
\* found entry's JSON object has a field of that upper-cased name whose value
\* is a string, and then holds such a field's value; fields with values of
\* other types contribute no key and cause no error.
C17_OnlyStringFieldsAreFlattened ==
    ret.op = "Fetch" =>
        /\ \A K \in DOMAIN ret.values : SomeFoundEntryGives(K, ret.values[K])
        /\ (\A i \in 1..Len(ret.calls) :
                ~AnswerTo(i).err => (AnswerTo(i).recordOk /\ AnswerTo(i).valueOk))
              => ret.err = NilErr

\* The global entry has the number field bar and the string field foo: the
\* result has FOO, has no BAR, and there is no error.
C17_Witness ==
    /\ ret.op = "Fetch"
    /\ ret.imageName = EmptyStr
    /\ SomeNonStringField
    /\ ret.err = NilErr
    /\ K_FOO \in DOMAIN ret.values
    /\ K_BAR \notin DOMAIN ret.values

\* The goroutines between Lock and Unlock, and between RLock and RUnlock.
InsideWrite == {g \in DOMAIN goroutines : goroutines[g].pc \in {"write", "writing", "Unlock"}}
InsideRead == {g \in DOMAIN goroutines : goroutines[g].pc \in {"read", "copy", "RUnlock"}}

\* C18: in every interleaving of concurrent Get, GetAll, Has, Set and the
\* merge steps of Load, at most one writer is inside the mapping at a time
\* and no reader is inside it together with a writer; no access races, so a
\* Get returns the value the mapping held when it read, which is the value
\* before or the value after any concurrent Set of that key, and GetAll
\* copies values the mapping held.
C18_LockExcludesWritersFromReaders ==
    /\ Cardinality(InsideWrite) <= 1
    /\ InsideWrite # {} => InsideRead = {}
    /\ \A g \in DOMAIN goroutines :
          /\ ~goroutines[g].fatal
          /\ goroutines[g].result = goroutines[g].committed
          /\ goroutines[g].result # Torn
          /\ Torn \notin Range(goroutines[g].copy)

\* A Get of foo waits at RLock while a Set of foo is inside the mapping, in
\* the middle of its write, and the Load waits at Lock.
C18_Witness ==
    /\ \E g \in DOMAIN goroutines :
          /\ goroutines[g].call = "Get"
          /\ goroutines[g].pc = "RLock"
          /\ \E h \in DOMAIN goroutines :
                /\ goroutines[h].call = "Set"
                /\ goroutines[h].pc = "writing"
                /\ ToUpper(goroutines[h].cur) = ToUpper(goroutines[g].key)
    /\ goroutines[Loader].pc = "Lock"

\* A Get returned the value that the Set of another goroutine wrote.
C18_WitnessSeesNewValue ==
    \E g \in DOMAIN goroutines, h \in DOMAIN goroutines :
        /\ goroutines[g].call = "Get" /\ goroutines[g].pc = "return"
        /\ goroutines[h].call = "Set" /\ goroutines[h].pc = "return"
        /\ goroutines[g].key = goroutines[h].key
        /\ goroutines[g].result = V_v

\* err is an "az command failed" error that wraps cause.
AzFailedWrapping(err, cause) ==
    /\ ~err.nil
    /\ HasPrefix(err.msg, MsgAzFailed)
    /\ Unwrap(err) = cause
    /\ TrimPrefix(err.msg, MsgAzFailed) = cause.msg

\* C19: AZ returns a nil error when the external command exits successfully
\* and a non-nil "az command failed" error wrapping the underlying cause
\* when it fails; AZOutput returns the captured stdout and a nil error on
\* success, and an empty string and such a wrapped error on failure.
C19_AzErrorsAreWrapped ==
    /\ ret.op = "AZ" =>
          IF ret.run.err.nil THEN ret.err.nil
          ELSE AzFailedWrapping(ret.err, ret.run.err)
    /\ ret.op = "AZOutput" =>
          IF ret.run.err.nil THEN ret.out = ret.run.stdout /\ ret.err.nil
          ELSE ret.out = EmptyStr /\ AzFailedWrapping(ret.err, ret.run.err)

\* az ran and exited with status 0: AZ returned nil.
C19_Witness ==
    /\ ret.op = "AZ"
    /\ ret.run.err.nil
    /\ ret.err.nil

\* az wrote to stdout and then failed: AZOutput returned "" and the error.
C19_WitnessOutputFails ==
    /\ ret.op = "AZOutput"
    /\ ret.run.err = ExitError
    /\ ret.run.stdout # EmptyStr
    /\ ret.out = EmptyStr
    /\ Unwrap(ret.err) = ExitError

\* The keys that the placeholders of a parsed template look up.
LookedUp(nodes) == {nodes[i].text : i \in {j \in 1..Len(nodes) : nodes[j].kind = "env"}}

\* The text of a parsed template with every placeholder replaced by the
\* value the store holds for its key.
RECURSIVE Substituted(_, _)
Substituted(nodes, values) ==
    IF nodes = <<>> THEN EmptyStr
    ELSE (IF nodes[1].kind = "env"
          THEN CHOOSE v \in Range(values) : \E K \in DOMAIN values :
                    DifferOnlyInCase(K, nodes[1].text) /\ values[K] = v
          ELSE nodes[1].text)
         \o Substituted(Tail(nodes), values)

\* C20: RenderEnv replaces every placeholder that looks up a key with the
\* key's non-empty value from the store; if the key of any placeholder is
\* absent or empty it fails with an error and produces no output, and it
\* never puts an empty string in the place of a missing key.
C20_RenderFailsOnMissingKey ==
    (ret.op = "RenderEnv" /\ ParseTemplate(ret.input).ok
        /\ \A i \in 1..Len(ParseTemplate(ret.input).nodes) :
               ParseTemplate(ret.input).nodes[i].kind # "field") =>
        IF \A key \in LookedUp(ParseTemplate(ret.input).nodes) : HasNonEmpty(ret.before, key)
        THEN /\ ret.err.nil
             /\ ret.out = Substituted(ParseTemplate(ret.input).nodes, ret.before)
        ELSE /\ ~ret.err.nil
             /\ ret.out = EmptyStr

\* Both keys of a template with two placeholders have values: the output
\* holds them in place of the placeholders.
C20_Witness ==
    /\ ret.op = "RenderEnv"
    /\ ret.input = T_Two
    /\ ret.err.nil
    /\ ret.out = Get(ret.before, K_foo) \o <<"-">> \o Get(ret.before, K_bar)
    /\ Get(ret.before, K_bar) # EmptyStr

\* The first key has a value and the second is set to the empty string: the
\* call fails and returns no output.
C20_WitnessMissing ==
    /\ ret.op = "RenderEnv"
    /\ ret.input = T_Two
    /\ Get(ret.before, K_foo) # EmptyStr
    /\ K_BAR \in DOMAIN ret.before
    /\ ret.before[K_BAR] = EmptyStr
    /\ ~ret.err.nil
    /\ ret.out = EmptyStr

\* The first provider of the list that is enabled, 0 when there is none
FirstEnabled(providers, values) ==
    IF \E i \in 1..Len(providers) : IsEnabled(providers[i], values)
    THEN CHOOSE i \in 1..Len(providers) :
             /\ IsEnabled(providers[i], values)
             /\ \A j \in 1..(i - 1) : ~IsEnabled(providers[j], values)
    ELSE 0

StorageComplete(values) ==
    /\ HasNonEmpty(values, K_LOG_STORAGE_ACCOUNT)
    /\ HasNonEmpty(values, K_LOG_STORAGE_KEY)
    /\ HasNonEmpty(values, K_FLUENTBIT_CONFIG)

\* C22: Manager.GenerateConfig runs the generation of the first provider, in
\* registration order, that is enabled and of no other, and writes only that
\* provider's configuration; with no provider enabled it returns nil, writes
\* nothing and calls nothing; and when the generation and the local write
\* succeed but a storage setting is missing, the local file is written, no
\* storage invocation is made and nil is returned.
C22_FirstEnabledProviderOnly ==
    ret.op = "GenerateConfig" =>
        LET first == FirstEnabled(ret.providers, ret.before)
            gen == IF first = 0 THEN [err |-> NilError]
                   ELSE ProviderGenerateConfig(ret.providers[first], ret.before, ret.world)
        IN /\ first = 0 =>
                 ret.generated = <<>> /\ ret.files = {} /\ ret.calls = <<>> /\ ret.err.nil
           /\ first # 0 =>
                 /\ ret.generated = <<ret.providers[first]>>
                 /\ ret.files \subseteq
                        {[path |-> FluentDir \o ret.imageName \o ConfSuffix,
                          content |-> gen.content]}
                 /\ (gen.err.nil /\ ret.world.fsFail \cap {FsMkdirFluent, FsWriteFluent} = {})
                        => /\ Cardinality(ret.files) = 1
                           /\ ~StorageComplete(ret.before) => ret.calls = <<>> /\ ret.err.nil
                           /\ StorageComplete(ret.before) => ret.calls # <<>>

\* Two providers are enabled, the second one registered later; the first
\* one's configuration was written.
C22_Witness ==
    /\ ret.op = "GenerateConfig"
    /\ Cardinality({i \in 1..Len(ret.providers) : IsEnabled(ret.providers[i], ret.before)}) >= 2
    /\ FirstEnabled(ret.providers, ret.before) = 2
    /\ ret.files # {}
    /\ ret.err.nil

\* A provider is enabled, a storage setting is missing: the file is written.
C22_WitnessNoStorage ==
    /\ ret.op = "GenerateConfig"
    /\ ret.generated = <<LogflareProvider>>
    /\ ~StorageComplete(ret.before)
    /\ HasNonEmpty(ret.before, K_LOG_STORAGE_ACCOUNT)
    /\ ret.files # {}
    /\ ret.err.nil

\* No provider is enabled although two are registered.
C22_WitnessNoneEnabled ==
    /\ ret.op = "GenerateConfig"
    /\ Len(ret.providers) >= 2
    /\ ret.generated = <<>>

ContainerOps == {AzContainerShow, AzContainerDelete, AzContainerCreate}
StorageOps == {AzShareShow, AzShareCreate, AzFileUpload}

\* The positions of the operation o in the sequence ops
At(ops, o) == {i \in 1..Len(ops) : ops[i] = o}

\* The logging configuration of the aci command is generated without an
\* error: Logflare is not enabled, or its template is read and rendered, the
\* file written and, with complete storage settings, the share found or
\* created and the file uploaded.
LoggingSucceeds(values, w) ==
    \/ ~(HasNonEmpty(values, K_LOGFLARE_API_KEY) /\ HasNonEmpty(values, K_LOGFLARE_SOURCE_ID))
    \/ /\ w.fsFail \cap {FsReadFluent, FsMkdirFluent, FsWriteFluent} = {}
       /\ RenderEnv(w.fluent, values).err.nil
       /\ \/ ~StorageComplete(values)
          \/ /\ ~({AzShareShow, AzShareCreate} \subseteq w.azFail)
             /\ AzFileUpload \notin w.azFail

\* An aci run that got as far as the `if dryRun` of the handler
ReachedDeployStep ==
    /\ ret.op = "aci"
    /\ ret.stage = StageValidated
    /\ FsReadTemplate \notin ret.world.fsFail
    /\ RenderEnv(ret.world.template, ret.values).err.nil
    /\ ret.world.jsonOk
    /\ LoggingSucceeds(ret.values, ret.world)

RECURSIVE DeployOps(_)
DeployOps(ops) ==
    IF ops = <<>> THEN <<>>
    ELSE (IF ops[1] \in StorageOps THEN <<>> ELSE <<ops[1]>>) \o DeployOps(Tail(ops))

\* An aci run without --dry-run that came to deployACI
Deployed == ReachedDeployStep /\ ~ret.dryRun

CheckedEnvironment == ret.envName \in {envDev, envDevelopment, envStaging}

\* C25: deployACI, for dev, development and staging, starts with the
\* existence check, issues the delete of a group it found before the temporary
\* file and the create, and issues neither after a failed delete; for every
\* other environment it issues no check and no delete and goes straight to
\* the create; the create is issued whenever the temporary file could be
\* written; and every create is followed by the removal of the temporary
\* file, which is left behind only when that removal fails.
C25_DeleteBeforeCreate ==
    Deployed =>
        LET ops == DeployOps(ret.ops)
            w == ret.world
            found == CheckedEnvironment /\ AzContainerShow \notin w.azFail
            deleteFailed == found /\ AzContainerDelete \in w.azFail
            pre == IF found THEN <<AzContainerShow, AzContainerDelete>>
                   ELSE IF CheckedEnvironment THEN <<AzContainerShow>>
                   ELSE <<>>
        IN /\ Len(ops) >= Len(pre) /\ SubSeq(ops, 1, Len(pre)) = pre
           /\ \A i \in (Len(pre) + 1)..Len(ops) :
                  ops[i] \notin {AzContainerShow, AzContainerDelete}
           /\ deleteFailed => ops = pre /\ ~ret.err.nil
           /\ (~deleteFailed /\ w.fsFail \cap {FsCreateTemp, FsWriteTemp} = {}) =>
                  Cardinality(At(ops, AzContainerCreate)) = 1
           /\ \A i \in At(ops, AzContainerCreate) :
                  /\ i < Len(ops) /\ ops[i + 1] = OsRemoveTemp
                  /\ \E j \in 1..(i - 1) : ops[j] = OsCreateTemp
           /\ (\E f \in ret.files : f.path = TempPath) => FsRemoveTemp \in w.fsFail
           /\ ret.err.nil <=> (AzContainerCreate \in Range(ops)
                               /\ AzContainerCreate \notin w.azFail)

\* In staging the group existed and was deleted, the create then failed and
\* the temporary file was removed.
C25_Witness ==
    /\ Deployed
    /\ ret.envName = envStaging
    /\ DeployOps(ret.ops) = <<AzContainerShow, AzContainerDelete, OsCreateTemp,
                              AzContainerCreate, OsRemoveTemp>>
    /\ ~ret.err.nil

\* In dev the delete of the existing group failed.
C25_WitnessDeleteFailed ==
    /\ Deployed
    /\ ret.envName = envDev
    /\ DeployOps(ret.ops) = <<AzContainerShow, AzContainerDelete>>

\* In prod the create is issued at once, after a storage upload.
C25_WitnessProd ==
    /\ Deployed
    /\ ret.envName = envProd
    /\ AzFileUpload \in Range(ret.ops)
    /\ DeployOps(ret.ops) = <<OsCreateTemp, AzContainerCreate, OsRemoveTemp>>
    /\ ret.err.nil

\* C30: a run of the aci command with --dry-run issues no az invocation at
\* all, neither for the deployment nor for the storage share and the upload.
C30_DryRunIssuesNoAz ==
    (ret.op = "aci" /\ ret.dryRun) => ret.ops = <<>>

\* What does hold: az is invoked in a dry run only for the upload of the
\* logging configuration, with a provider enabled and complete storage
\* settings.
C30_DryRunInvokesOnlyStorage ==
    (ret.op = "aci" /\ ret.dryRun) =>
        /\ \A i \in 1..Len(ret.ops) : ret.ops[i] \in StorageOps
        /\ ret.ops # <<>> => ret.generated # <<>> /\ StorageComplete(ret.values)

\* A dry run that succeeded after it uploaded the logging configuration.
C30_DryRunUploads ==
    /\ ret.op = "aci"
    /\ ret.dryRun
    /\ ret.err.nil
    /\ ret.ops = <<AzShareShow, AzFileUpload>>

UpdateOps == {AzWebAppContainerSet, AzWebAppSettingsSet}

\* A webapp run that passed its validation
WebAppValidated == ret.op = "webapp" /\ ret.stage = StageValidated

\* C26: after the validation of the webapp command, a web app that exists
\* is only updated; one that does not exist, with no App Service Plan
\* resolved, makes the command fail with neither create nor update issued;
\* one that does not exist, with a plan, is created before it is updated,
\* and is not updated when the create failed.
C26_CreateOnlyWhenMissing ==
    WebAppValidated =>
        LET exists == AzWebAppShow \notin ret.world.azFail
            created == AzWebAppCreate \notin ret.world.azFail
        IN /\ ret.ops # <<>> /\ ret.ops[1] = AzWebAppShow
           /\ exists =>
                  /\ ret.steps = <<"checkWebAppExists", "updateWebApp">>
                  /\ AzWebAppCreate \notin Range(ret.ops)
                  /\ AzWebAppContainerSet \in Range(ret.ops)
           /\ (~exists /\ ret.appServicePlan = EmptyStr) =>
                  /\ ret.steps = <<"checkWebAppExists">>
                  /\ ret.ops = <<AzWebAppShow>>
                  /\ ~ret.err.nil
           /\ (~exists /\ ret.appServicePlan # EmptyStr) =>
                  /\ Len(ret.ops) >= 2 /\ ret.ops[2] = AzWebAppCreate
                  /\ \A i \in 3..Len(ret.ops) : ret.ops[i] \in UpdateOps
                  /\ created => /\ ret.steps = <<"checkWebAppExists", "createWebApp",
                                                 "updateWebApp">>
                                /\ AzWebAppContainerSet \in Range(ret.ops)
                  /\ ~created => /\ ret.steps = <<"checkWebAppExists", "createWebApp">>
                                 /\ ret.ops = <<AzWebAppShow, AzWebAppCreate>>
                                 /\ ~ret.err.nil

\* The web app did not exist, the plan came from the configuration, the
\* create failed.
C26_Witness ==
    /\ WebAppValidated
    /\ ret.appServicePlan = V_plan1
    /\ ret.ops = <<AzWebAppShow, AzWebAppCreate>>
    /\ ~ret.err.nil

\* Created and then updated, settings included.
C26_WitnessCreated ==
    /\ WebAppValidated
    /\ ret.ops = <<AzWebAppShow, AzWebAppCreate, AzWebAppContainerSet, AzWebAppSettingsSet>>
    /\ ret.err.nil

\* No web app and no plan.
C26_WitnessNoPlan ==
    /\ WebAppValidated
    /\ ret.appServicePlan = EmptyStr
    /\ ret.ops = <<AzWebAppShow>>

\* The branches detectEnvironmentFromCI knows and the environment of each
BranchTable ==
    {<<envDev, envDev>>, <<envDevelopment, envDev>>, <<envStaging, envStaging>>,
     <<BranchMain, envProd>>, <<BranchMaster, envProd>>, <<envProd, envProd>>,
     <<envProduction, envProd>>}

\* out is the text t with its upper-case letters replaced by lower-case ones
LowerCased(out, t) == DifferOnlyInCase(out, t) /\ \A i \in 1..Len(out) : out[i] \notin Range(UpperLetters)

Env(e, name) == IF name \in DOMAIN e THEN e[name] ELSE EmptyStr

\* C23: detectEnvironmentFromCI gives the first result that applies, in the
\* order GitHub Actions branch (by the table of branches), Azure Pipeline
\* SYSTEM_ENVIRONMENT, GitLab CI_ENVIRONMENT_NAME, ENVIRONMENT, the last
\* three in lower case, and "" when none applies; isCIEnvironment is true
\* exactly when one of CI, GITHUB_ACTIONS, AZURE_PIPELINE, GITLAB_CI,
\* JENKINS_URL, TRAVIS, CIRCLECI is non-empty.
C23_FirstApplicableDetection ==
    ret.op = "detect" =>
        LET e == ret.environ
            gitHub == {b \in BranchTable :
                          /\ Env(e, K_GITHUB_ACTIONS) = envTrue
                          /\ Env(e, K_GITHUB_REF) = RefsHeads \o b[1]}
            azure == Env(e, K_AZURE_PIPELINE) = envTrue /\ Env(e, K_SYSTEM_ENVIRONMENT) # EmptyStr
            gitLab == Env(e, K_GITLAB_CI) = envTrue /\ Env(e, K_CI_ENVIRONMENT_NAME) # EmptyStr
            explicit == Env(e, K_ENVIRONMENT) # EmptyStr
        IN /\ \A b \in gitHub : ret.env = b[2]
           /\ (gitHub = {} /\ azure) => LowerCased(ret.env, Env(e, K_SYSTEM_ENVIRONMENT))
           /\ (gitHub = {} /\ ~azure /\ gitLab) =>
                  LowerCased(ret.env, Env(e, K_CI_ENVIRONMENT_NAME))
           /\ (gitHub = {} /\ ~azure /\ ~gitLab /\ explicit) =>
                  LowerCased(ret.env, Env(e, K_ENVIRONMENT))
           /\ (gitHub = {} /\ ~azure /\ ~gitLab /\ ~explicit) => ret.env = EmptyStr
           /\ ret.ci <=> \E k \in {K_CI, K_GITHUB_ACTIONS, K_AZURE_PIPELINE, K_GITLAB_CI,
                                     K_JENKINS_URL, K_TRAVIS, K_CIRCLECI} :
                             Env(e, k) # EmptyStr

\* GitHub's branch main wins over SYSTEM_ENVIRONMENT and ENVIRONMENT, which
\* are set as well.
C23_Witness ==
    /\ ret.op = "detect"
    /\ ret.env = envProd
    /\ Env(ret.environ, K_GITHUB_REF) = V_refMain
    /\ Env(ret.environ, K_AZURE_PIPELINE) = envTrue
    /\ Env(ret.environ, K_SYSTEM_ENVIRONMENT) = V_QA
    /\ Env(ret.environ, K_ENVIRONMENT) = V_PROD

\* A branch outside the table: the detection falls through to GitLab's
\* variable, lower-cased.
C23_WitnessFallsThrough ==
    /\ ret.op = "detect"
    /\ Env(ret.environ, K_GITHUB_ACTIONS) = envTrue
    /\ Env(ret.environ, K_GITHUB_REF) = V_refFeature
    /\ ret.env = envStaging
    /\ Env(ret.environ, K_ENVIRONMENT) = V_PROD

\* Nothing applies although the process runs in CI.
C23_WitnessNone ==
    /\ ret.op = "detect"
    /\ ret.ci
    /\ ret.env = EmptyStr
    /\ Env(ret.environ, K_SYSTEM_ENVIRONMENT) = V_QA

\* The string fields of the entry that the configuration set name holds
\* under key and label, the empty set for an entry that is not there
RemoteFields(name, key, label) ==
    IF <<name, key, label>> \in DOMAIN remote /\ remote[<<name, key, label>>].valueOk
    THEN {f \in DOMAIN remote[<<name, key, label>>].fields :
             remote[<<name, key, label>>].fields[f].isString}
    ELSE {}

\* C24: after reloadConfigWithEnvironment(env) has returned nil, the store
\* holds a value for every string field of the global entry that the
\* environment-specific configuration set holds under label env.
C24_ReloadLoadsEnvironmentSet ==
    (ret.op = "reload" /\ ret.err = NilErr) =>
        \A f \in RemoteFields(ret.name, GlobalKey, ret.env) : HasNonEmpty(Store, f)

\* What holds: the reload performs no Load; it leaves the store as it was
\* but for the mapping of <ENV>_ variables in CI, and the environment names
\* the configuration set and the label.
C24_ReloadOnlySetsTheEnvironment ==
    (ret.op = "reload" /\ ret.err = NilErr) =>
        /\ loadCount = 1
        /\ \A k \in DOMAIN ret.before : k \in DOMAIN Store
        /\ ~HasNonEmpty(environ, K_CI) => Store = ret.before
        /\ Getenv(K_APP_CONFIG_LABEL) = ret.env
        /\ Getenv(K_APP_CONFIG_NAME) = ret.name

\* The reload returned nil, the set named by DEV_APP_CONFIG has values for
\* dev, and the store has none of them.
C24_ReloadLoadedNothing ==
    /\ ret.op = "reload"
    /\ ret.name = V_cfg
    /\ RemoteFields(V_cfg, GlobalKey, V_dev) # {}
    /\ \A f \in RemoteFields(V_cfg, GlobalKey, V_dev) : ~HasNonEmpty(Store, f)

\* The decimal text s denotes a number greater than 0 and at most max
InRange(s, max) ==
    /\ MatchString(PatDecimal, s)
    /\ \E i \in 1..Len(s) : IsDigit(s[i]) /\ s[i] # "0"
    /\ LET n == DigitRun(s)
       IN  \/ NatOf(SubSeq(s, 1, n)) < max
           \/ /\ NatOf(SubSeq(s, 1, n)) = max
              /\ \A i \in (n + 2)..Len(s) : s[i] = "0"

\* A configuration that the ACI rule describes as valid
ValidACI(values) ==
    /\ \A i \in 1..Len(ACIValidation.required) : HasNonEmpty(values, ACIValidation.required[i])
    /\ \A f \in DOMAIN ACIValidation.patterns :
           MatchString(ACIValidation.patterns[f], Get(values, f))
    /\ InRange(Get(values, K_ACI_CPU), 4)
    /\ InRange(Get(values, K_ACI_MEMORY), 16)

ValidatedACI == ret.op = "EngineValidate" /\ ret.rules = <<ACIValidation>>

\* The error names the rule.
NamesRule(err, rule) == ~err.nil /\ \E i \in 1..Len(err.msg) : err.msg[i] = rule.name

\* C27: Validate with the ACI rule returns nil for a configuration with
\* every required field, every pattern matching, ACI_CPU in (0, 4] and
\* ACI_MEMORY in (0, 16], and an error that names the rule for any other.
C27_ValidACIConfigurationPasses ==
    ValidatedACI =>
        IF ValidACI(ret.before) THEN ret.err.nil ELSE NamesRule(ret.err, ACIValidation)

\* What holds: with the ACI rule, Validate returns an error naming the rule
\* for every configuration, the valid ones included.
C27_ACIRuleAlwaysFails ==
    ValidatedACI => NamesRule(ret.err, ACIValidation)

\* A valid configuration, CPU 0.5 and memory 16, is rejected.
C27_ValidConfigurationRejected ==
    /\ ValidatedACI
    /\ ValidACI(ret.before)
    /\ Get(ret.before, K_ACI_CPU) = V_0_5
    /\ Get(ret.before, K_ACI_MEMORY) = V_16
    /\ ~ret.err.nil

\* The engine does return nil: the web app rule alone on a valid
\* configuration.
C27_WebAppRulePasses ==
    /\ ret.op = "EngineValidate"
    /\ ret.rules = <<WebAppValidation>>
    /\ ValidACI(ret.before)
    /\ ret.err.nil

(***************************************************************************)
(* applyFallbacks beside Set (SpecFallback).                               *)
(***************************************************************************)
\* The goroutines whose Set of key k has written its value.
SetDone(k) ==
    {g \in Goroutines : /\ goroutines[g].call = "Set"
                        /\ ToUpper(goroutines[g].key) = k
                        /\ goroutines[g].pending = EmptyMap}

\* The Load is inside applyFallbacks and in the write of one of its Sets.
FallbackWriting(k) ==
    /\ goroutines[Loader].call = "Load"
    /\ goroutines[Loader].fb \in {3, 6}
    /\ goroutines[Loader].pc = "writing"
    /\ goroutines[Loader].cur = k

\* C28: under every interleaving of Load with Set calls of other goroutines,
\* a non-empty value that a Set has stored for ACR_REGISTRY or
\* IMAGE_REGISTRY is not replaced by the value applyFallbacks derives: no
\* write of applyFallbacks changes a value that a completed Set stored.
C28_SetValueSurvivesFallback ==
    [][\A k \in {K_ACR_REGISTRY, K_IMAGE_REGISTRY} :
          (/\ SetDone(k) # {}
           /\ Get(heap[globalConfig], k) # EmptyStr
           /\ FallbackWriting(k))
          => Get(heap'[globalConfig], k) = Get(heap[globalConfig], k)]_vars

\* The value a caller Set for ACR_REGISTRY has been replaced by the value of
\* REGISTRY, after the Set returned and the Load finished.
C28_SetValueReplaced ==
    /\ \E g \in Goroutines \ {Loader} :
          /\ goroutines[g].call = "Set"
          /\ goroutines[g].key = K_ACR_REGISTRY
          /\ goroutines[g].pc = "return"
    /\ goroutines[Loader].call = "Load"
    /\ goroutines[Loader].pc = "return"
    /\ Get(heap[globalConfig], K_ACR_REGISTRY) = V_e2

\* What holds: each write of applyFallbacks is made under the write lock,
\* with no reader and no other writer inside; it is the Get before it that
\* is a lock cycle of its own.
C28_FallbackWritesUnderLock ==
    \A k \in {K_ACR_REGISTRY, K_IMAGE_REGISTRY} :
        FallbackWriting(k) => /\ mu.writer = Loader
                              /\ mu.readers = {}
                              /\ WritingBeside(Loader) = {}

(***************************************************************************)
(* Init from several goroutines (SpecOnce).                                *)
(***************************************************************************)
\* The goroutines whose Init is about to return or has returned.
InitLeft ==
    {g \in Goroutines : goroutines[g].call = "Init" /\ goroutines[g].pc \in {"initReturn", "return"}}

\* The goroutines that called Current after an Init had returned.
CurrentAfterInit ==
    {g \in Goroutines : goroutines[g].call = "Current" /\ goroutines[g].after}

\* C29: with Init called from several goroutines, Load is executed once; no
\* Init leaves configOnce.Do before the Config has been constructed and
\* loaded; a Current called after an Init has returned does not panic, and
\* all such calls return the one Config.
C29_InitOnceUnderConcurrency ==
    /\ loadCount <= 1
    /\ Len(heap) <= 1
    /\ InitLeft # {} => /\ loadCount = 1
                        /\ globalConfig = 1
                        /\ onceDone
                        /\ InsideOnce = {}
    /\ \A g \in CurrentAfterInit : /\ ~goroutines[g].panicked
                                   /\ goroutines[g].config = 1

\* Two Inits have returned, one of which found the done flag unset and
\* waited for the mutex while the other ran the function, and a Current
\* called afterwards has returned the Config.
C29_Witness ==
    /\ Len(initResults) = 2
    /\ loadCount = 1
    /\ CurrentAfterInit # {}
    /\ \A g \in CurrentAfterInit : goroutines[g].config = globalConfig

\* An Init waits at the mutex while another goroutine is in Load.
C29_WitnessWaiting ==
    \E g, h \in Goroutines :
        /\ goroutines[g].pc = "doSlow"
        /\ goroutines[h].pc = "Load"

\* Before any Init has returned Current does panic.
C29_WitnessPanicBefore ==
    \E g \in Goroutines : goroutines[g].call = "Current" /\ goroutines[g].panicked

====
